---- MODULE Spec2Model ----
(***************************************************************************)
(* Streaming GROUP BY aggregation engine of vinum (vinum_cpp): the         *)
(* aggregate drivers (one-group, single-numeric, multi-numeric, generic),  *)
(* the aggregate functions, the column iterators and the 128-bit integer   *)
(* (hugeint_t) used by SUM/AVG over 64-bit columns.                        *)
(*                                                                         *)
(* Machine words are scaled: a "64-bit" word has WordBits bits, so that    *)
(* hugeint_t = {lower: unsigned word, upper: signed word} has 2*WordBits   *)
(* bits.  Every limit (numeric_limits<T>::max() and friends) is derived    *)
(* from WordBits, and all word arithmetic wraps modulo 2^WordBits.         *)
(***************************************************************************)
EXTENDS Integers, Sequences, FiniteSets, TLC

\* ------------------------------------------------------------------ bounds
\* Width of the scaled 64-bit machine word.
WordBits == 4

RECURSIVE Pow2(_)
Pow2(n) == IF n <= 0 THEN 1 ELSE 2 * Pow2(n - 1)

TwoW == Pow2(WordBits)

\* numeric_limits<int64_t>::max() / min(), numeric_limits<uint64_t>::max()
I64Max == Pow2(WordBits - 1) - 1
I64Min == 0 - Pow2(WordBits - 1)
U64Max == TwoW - 1

\* ------------------------------------------------------- integer types
\* The integer targets of Hugeint::TryCast / Hugeint::Convert.  The narrower
\* types keep their order: each has half the range of the next one.
IntTypes == {"i8", "i16", "i32", "i64", "u64"}

TypeBits(T) ==
    CASE T = "i64" -> WordBits
      [] T = "u64" -> WordBits
      [] T = "i32" -> WordBits - 1
      [] T = "i16" -> WordBits - 2
      [] T = "i8"  -> WordBits - 3

IsSigned(T) == T # "u64"

\* numeric_limits<DST>::max()
NumericLimitsMax(T) ==
    IF IsSigned(T) THEN Pow2(TypeBits(T) - 1) - 1 ELSE Pow2(TypeBits(T)) - 1

\* numeric_limits<DST>::min()
NumericLimitsMin(T) ==
    IF IsSigned(T) THEN 0 - Pow2(TypeBits(T) - 1) ELSE 0

TypeRange(T) == NumericLimitsMin(T) .. NumericLimitsMax(T)

\* static_cast<uint64_t>(x): the bit pattern of x as an unsigned word
ToU64(x) == x % TwoW

\* the signed reading of an unsigned word (two's complement)
ToI64(u) == IF (u % TwoW) > I64Max THEN (u % TwoW) - TwoW ELSE u % TwoW

\* ------------------------------------------------------------ hugeint_t
Hugeints == [lower : 0 .. U64Max, upper : I64Min .. I64Max]

MkHuge(up, lo) == [lower |-> lo, upper |-> up]

\* the number a hugeint_t stands for (two's complement over both words)
HugeVal(h) == h.upper * TwoW + h.lower

HugeZero == MkHuge(0, 0)

\* hugeint_convert_integer<DST>: lower = (uint64_t) input,
\* upper = (input < 0) * -1.
HugeintConvert(T, x) ==
    MkHuge(IF x < 0 THEN 0 - 1 ELSE 0, ToU64(x))

\* hugeint_try_cast_integer<DST>.  DST(x) of an in-range x is x; the unary
\* minus of an unsigned DST wraps modulo 2^WordBits.  On failure `result`
\* is left untouched by the code (0 stands for "not written").
TryCastInteger(input, T) ==
    LET max == NumericLimitsMax(T) IN
    CASE input.upper = 0 ->
            IF input.lower <= max
            THEN [ok |-> TRUE, result |-> input.lower]
            ELSE [ok |-> FALSE, result |-> 0]
      [] input.upper = 0 - 1 ->
            IF input.lower > U64Max - max
            THEN [ok |-> TRUE,
                  result |-> IF IsSigned(T)
                             THEN 0 - (U64Max - input.lower + 1)
                             ELSE (TwoW - (U64Max - input.lower + 1)) % TwoW]
            ELSE [ok |-> FALSE, result |-> 0]
      [] OTHER -> [ok |-> FALSE, result |-> 0]

\* Mutant of Hugeint::AddInPlace: the carry out of lower is dropped.
AddInPlaceNoCarry(lhs, rhs) ==
    LET sum == MkHuge(ToI64(ToU64(lhs.upper + rhs.upper)),
                      (lhs.lower + rhs.lower) % TwoW)
    IN  [ok |-> TRUE, val |-> sum]

\* Hugeint::AddInPlace(lhs, rhs): [ok, val] where val is lhs after the call.
\* The sum of the upper words is computed in a machine word (wraps).
AddInPlace(lhs, rhs) ==
    LET overflow == IF (lhs.lower + rhs.lower) % TwoW < lhs.lower THEN 1 ELSE 0
        rejected ==
            IF rhs.upper >= 0
            THEN lhs.upper > I64Max - rhs.upper - overflow
            ELSE lhs.upper < I64Min - rhs.upper - overflow
        sum == MkHuge(ToI64(ToU64(lhs.upper + overflow + rhs.upper)),
                      (lhs.lower + rhs.lower) % TwoW)
    IN  IF rejected
        THEN [ok |-> FALSE, val |-> lhs]
        ELSE IF sum.upper = I64Min /\ sum.lower = 0
             THEN [ok |-> FALSE, val |-> sum]
             ELSE [ok |-> TRUE, val |-> sum]

\* Hugeint::SubtractInPlace(lhs, rhs): [ok, val], val is lhs after the call.
SubtractInPlace(lhs, rhs) ==
    LET underflow == IF (lhs.lower - rhs.lower) % TwoW > lhs.lower THEN 1 ELSE 0
        rejected ==
            IF rhs.upper >= 0
            THEN lhs.upper < I64Min + rhs.upper + underflow
            ELSE lhs.upper >= I64Max + rhs.upper + underflow - 1
        diff == MkHuge(ToI64(ToU64(lhs.upper - rhs.upper - underflow)),
                       (lhs.lower - rhs.lower) % TwoW)
    IN  IF rejected
        THEN [ok |-> FALSE, val |-> lhs]
        ELSE IF diff.upper = I64Min /\ diff.lower = 0
             THEN [ok |-> FALSE, val |-> diff]
             ELSE [ok |-> TRUE, val |-> diff]

\* hugeint_t::operator+= : the flag of AddInPlace is dropped.
HugePlusEq(lhs, rhs) == AddInPlace(lhs, rhs).val


\* ------------------------------------------------------------------ bounds
\* Most rows pushed into one driver over all its Next calls.
MaxRows == 3
\* Most Next calls on one driver.
MaxBatches == 3

\* --------------------------------------------------------- record batches
\* An array element: validity bit and the value in the data buffer (a null
\* element still has bits in the data buffer).
Cell(isnull, val) == [null |-> isnull, v |-> val]

\* a null shared_ptr state / a null output element
None == [null |-> TRUE, v |-> 0]
Some(x) == [null |-> FALSE, v |-> x]

\* The batch schema: two group-by candidates k1, k2 (int64) and the
\* aggregated column c (int64 or uint64).  Column index = position.
SchemaCols == <<"k1", "k2", "c">>

\* Schema::GetFieldIndex(name): 0-based, -1 when unknown.
GetFieldIndex(name) ==
    IF \E i \in 1 .. Len(SchemaCols) : SchemaCols[i] = name
    THEN (CHOOSE i \in 1 .. Len(SchemaCols) : SchemaCols[i] = name) - 1
    ELSE 0 - 1

\* column name of a 0-based column index
ColName(idx) == SchemaCols[idx + 1]

\* Values of the aggregated column, by its type.
CVals(ctype) ==
    IF ctype = "int64" THEN {I64Min, I64Max} ELSE {1, U64Max}

CCells(ctype) == {None} \cup {Some(x) : x \in CVals(ctype)}

\* Key cells: non-null values, and nulls over different data.
K1Cells(variant) ==
    IF variant = "single"
    THEN {Cell(FALSE, 0), Cell(FALSE, 1), Cell(TRUE, 0), Cell(TRUE, 1)}
    ELSE {Cell(FALSE, 0), Cell(TRUE, 0), Cell(TRUE, 1)}
K2Cells == {Cell(FALSE, 0), Cell(TRUE, 1)}

\* The four drivers and the group-by columns each is built with.
Variants == {"one", "single", "multi", "generic"}

GroupbyCols(variant) ==
    CASE variant = "one"     -> <<>>
      [] variant = "single"  -> <<"k1">>
      [] variant = "multi"   -> <<"k1", "k2">>
      [] variant = "generic" -> <<"k1", "k2">>

\* Constructor arguments and column type of one run.  `unknown` tells which
\* of the three name lists holds a name the batch schema does not have
\* ("" when all names are known); `project` tells whether agg_cols names the
\* group-by columns or is empty, `defs` whether agg_funcs is AggDefs or empty.
Configs ==
    { [variant |-> "one", ctype |-> "int64", project |-> FALSE, defs |-> TRUE, unknown |-> "", ktype |-> "INT64"],
      [variant |-> "one", ctype |-> "uint64", project |-> FALSE, defs |-> TRUE, unknown |-> "", ktype |-> "INT64"],
      [variant |-> "single", ctype |-> "int64", project |-> TRUE, defs |-> TRUE, unknown |-> "", ktype |-> "INT64"],
      [variant |-> "single", ctype |-> "int64", project |-> FALSE, defs |-> TRUE, unknown |-> "", ktype |-> "INT64"],
      [variant |-> "multi", ctype |-> "int64", project |-> TRUE, defs |-> TRUE, unknown |-> "", ktype |-> "INT64"],
      [variant |-> "generic", ctype |-> "int64", project |-> TRUE, defs |-> TRUE, unknown |-> "", ktype |-> "INT64"],
      [variant |-> "single", ctype |-> "int64", project |-> FALSE, defs |-> TRUE, unknown |-> "groupby", ktype |-> "INT64"],
      [variant |-> "single", ctype |-> "int64", project |-> TRUE, defs |-> TRUE, unknown |-> "project", ktype |-> "INT64"],
      [variant |-> "single", ctype |-> "int64", project |-> FALSE, defs |-> TRUE, unknown |-> "agg", ktype |-> "INT64"],
      [variant |-> "single", ctype |-> "int64", project |-> FALSE, defs |-> TRUE, unknown |-> "", ktype |-> "BOOL"],
      [variant |-> "single", ctype |-> "int64", project |-> TRUE, defs |-> TRUE, unknown |-> "", ktype |-> "INTERVAL_DAY_TIME"],
      [variant |-> "single", ctype |-> "int64", project |-> FALSE, defs |-> FALSE, unknown |-> "", ktype |-> "INT64"] }

\* groupby_cols constructor argument
GroupbyColNames(c) ==
    IF c.unknown = "groupby" THEN <<"zz">> ELSE GroupbyCols(c.variant)

\* Rows of the batches pushed to a driver: columns that its group-by list
\* does not name are held constant.
Rows(c) ==
    [k1 : IF c.variant = "one" THEN {Cell(FALSE, 0)} ELSE K1Cells(c.variant),
     k2 : IF c.variant \in {"one", "single"} THEN {Cell(FALSE, 0)} ELSE K2Cells,
     c  : IF ~c.defs THEN {None}
          ELSE IF c.variant \in {"multi", "generic"}
          THEN {None, Some(I64Max)} ELSE CCells(c.ctype)]

\* AggFuncDef lists handed to the constructor (user-declared functions).
AggDefs ==
    << [func |-> "COUNT_STAR", column_name |-> "",  out_col_name |-> "count_star"],
       [func |-> "COUNT",      column_name |-> "c", out_col_name |-> "count_c"],
       [func |-> "MIN",        column_name |-> "c", out_col_name |-> "min_c"],
       [func |-> "MAX",        column_name |-> "c", out_col_name |-> "max_c"],
       [func |-> "SUM",        column_name |-> "c", out_col_name |-> "sum_c"] >>

\* agg_cols constructor argument (the key-project columns)
AggColNames(c) ==
    IF c.unknown = "project" THEN <<"zz">>
    ELSE IF c.project THEN GroupbyCols(c.variant) ELSE <<>>

\* agg_funcs constructor argument
InputAggSpecs(c) ==
    IF c.unknown = "agg"
    THEN << [func |-> "SUM", column_name |-> "zz", out_col_name |-> "sum_zz"] >>
    ELSE IF c.defs THEN AggDefs ELSE <<>>

\* -------------------------------------------------------- column iterators
\* The element an iterator reads at 0-based position i of column col of the
\* bound batch.  Past the end of the array the read is out of bounds: what
\* it yields is the caller-supplied oob cell (any cell).
ReadCell(batch, col, i, oob) ==
    IF i < Len(batch)
    THEN batch[i + 1][IF col = "" THEN "k1" ELSE col]
    ELSE oob

\* ArrayIter::IsNull() at the cursor
IterIsNull(batch, col, cur, oob) == ReadCell(batch, col, cur, oob).null

\* ArrayIter::NextNull(): is-null, cursor advanced
NextNull(batch, col, cur, oob) ==
    [is_null |-> IterIsNull(batch, col, cur, oob), cur |-> cur + 1]

\* ArrayIter::NextIfNull(): is-null, cursor advanced only when null
NextIfNull(batch, col, cur, oob) ==
    LET n == IterIsNull(batch, col, cur, oob)
    IN  [is_null |-> n, cur |-> IF n THEN cur + 1 ELSE cur]

\* NumericArrayIter::Next(): the value at the cursor, cursor advanced
IterNext(batch, col, cur, oob) ==
    [val |-> ReadCell(batch, col, cur, oob).v, cur |-> cur + 1]

\* ArrayIter::HasMore()
HasMore(batch, cur) == cur < Len(batch)

\* ArrayIter::NonNullCount(): length - null_count
NonNullCount(batch, col) ==
    Cardinality({i \in 1 .. Len(batch) : ~batch[i][col].null})


\* ------------------------------------------------------ aggregate functions
\* A function object made by agg_func_factory: its definition, the cursor of
\* its array_iter (reset by SetArrayIter), its output builder and, for SUM
\* over a 64-bit column, the overflow builder.
NewFunc(def) ==
    [func |-> def.func, column_name |-> def.column_name,
     out_col_name |-> def.out_col_name,
     cur |-> 0, builder |-> <<>>,
     is_overflow_mode |-> FALSE, overflow_builder |-> <<>>]

\* Init / Update / InitBatch / UpdateBatch results: the group state and the
\* cursor of the function's iterator after the call.
StCur(st, cur) == [st |-> st, cur |-> cur]

\* the null state of SUM (shared_ptr<hugeint_t>(nullptr))
NoneHuge == [null |-> TRUE, v |-> HugeZero]

\* The integer type of the aggregated column as a TryCast / Convert type.
CType(ctype) == IF ctype = "int64" THEN "i64" ELSE "u64"

\* CountStarFunc::Init
CountStarInit(f) == StCur(Some(1), f.cur)

\* Mutant of CountStarFunc::Update: the counter is not incremented.
CountStarUpdateKeeps(f, st) == StCur(st, f.cur)

\* CountStarFunc::Update
CountStarUpdate(f, st) == StCur(Some(st.v + 1), f.cur)

\* CountFunc::Init
CountInit(f, batch, oob) ==
    LET r == NextNull(batch, f.column_name, f.cur, oob)
    IN  StCur(Some(IF r.is_null THEN 0 ELSE 1), r.cur)

\* Mutant of CountFunc::Update: null elements are counted too.
CountUpdateCountsNulls(f, st, batch, oob) ==
    StCur(Some(st.v + 1), NextNull(batch, f.column_name, f.cur, oob).cur)

\* CountFunc::Update
CountUpdate(f, st, batch, oob) ==
    LET r == NextNull(batch, f.column_name, f.cur, oob)
    IN  StCur(Some(st.v + (IF r.is_null THEN 0 ELSE 1)), r.cur)

\* MinMaxFunc::Update, the test (row_val < *last) ^ is_max
MinMaxReplaces(row_val, last, is_max) == (row_val < last) # is_max

\* MinMaxFunc::Init
MinMaxInit(f, batch, oob) ==
    LET n == NextIfNull(batch, f.column_name, f.cur, oob)
    IN  IF n.is_null
        THEN StCur(None, n.cur)
        ELSE LET x == IterNext(batch, f.column_name, n.cur, oob)
             IN  StCur(Some(x.val), x.cur)

\* Mutant of MinMaxFunc::Update: a null element clears the state.
MinMaxUpdateNullClears(f, st, batch, oob) ==
    LET n == NextIfNull(batch, f.column_name, f.cur, oob)
        x == IterNext(batch, f.column_name, n.cur, oob)
    IN  IF n.is_null THEN StCur(None, n.cur)
        ELSE IF st.null THEN StCur(Some(x.val), x.cur)
        ELSE IF MinMaxReplaces(x.val, st.v, f.func = "MAX")
             THEN StCur(Some(x.val), x.cur)
             ELSE StCur(st, x.cur)

\* MinMaxFunc::Update
MinMaxUpdate(f, st, batch, oob) ==
    LET n == NextIfNull(batch, f.column_name, f.cur, oob)
        x == IterNext(batch, f.column_name, n.cur, oob)
    IN  IF n.is_null THEN StCur(st, n.cur)
        ELSE IF st.null THEN StCur(Some(x.val), x.cur)
        ELSE IF MinMaxReplaces(x.val, st.v, f.func = "MAX")
             THEN StCur(Some(x.val), x.cur)
             ELSE StCur(st, x.cur)

\* SumOverflowFunc::Init
SumInit(f, batch, oob, ctype) ==
    LET n == NextIfNull(batch, f.column_name, f.cur, oob)
    IN  IF n.is_null
        THEN StCur(NoneHuge, n.cur)
        ELSE LET x == IterNext(batch, f.column_name, n.cur, oob)
             IN  StCur(Some(HugeintConvert(CType(ctype), x.val)), x.cur)

\* SumOverflowFunc::Update
SumUpdate(f, st, batch, oob, ctype) ==
    LET n == NextIfNull(batch, f.column_name, f.cur, oob)
        x == IterNext(batch, f.column_name, n.cur, oob)
        row_val == HugeintConvert(CType(ctype), x.val)
    IN  IF n.is_null THEN StCur(st, n.cur)
        ELSE IF st.null THEN StCur(Some(row_val), x.cur)
        ELSE StCur(Some(HugePlusEq(st.v, row_val)), x.cur)

\* GroupBuilder::Init(row_idx): IsNull(row_idx) / GetValue(row_idx)
\* Mutant of GroupBuilder::Init: the value of row 0 of the batch is kept.
GroupBuilderInitRowZero(f, batch, row_idx) ==
    LET cell == batch[1][f.column_name]
    IN  StCur(IF cell.null THEN None ELSE Some(cell.v), f.cur)

\* GroupBuilder::Init
GroupBuilderInit(f, batch, row_idx) ==
    LET cell == batch[row_idx + 1][f.column_name]
    IN  StCur(IF cell.null THEN None ELSE Some(cell.v), f.cur)

\* AbstractAggFunc::Init(row_idx), by function class
FuncInit(f, batch, row_idx, oob, ctype) ==
    CASE f.func = "COUNT_STAR"    -> CountStarInit(f)
      [] f.func = "COUNT"         -> CountInit(f, batch, oob)
      [] f.func \in {"MIN", "MAX"} -> MinMaxInit(f, batch, oob)
      [] f.func = "SUM"           -> SumInit(f, batch, oob, ctype)
      [] f.func = "GROUP_BUILDER" -> GroupBuilderInit(f, batch, row_idx)

\* AbstractAggFunc::Update(current_val), by function class
\* (GroupBuilder::Update throws; the drivers never call it)
FuncUpdate(f, st, batch, oob, ctype) ==
    CASE f.func = "COUNT_STAR"    -> CountStarUpdate(f, st)
      [] f.func = "COUNT"         -> CountUpdate(f, st, batch, oob)
      [] f.func \in {"MIN", "MAX"} -> MinMaxUpdate(f, st, batch, oob)
      [] f.func = "SUM"           -> SumUpdate(f, st, batch, oob, ctype)

\* AbstractAggFunc::InitBatch(): 0 for the counts, Init(0) for the others
FuncInitBatch(f, batch, oob, ctype) ==
    CASE f.func \in {"COUNT_STAR", "COUNT"} -> StCur(Some(0), f.cur)
      [] OTHER -> FuncInit(f, batch, 0, oob, ctype)

\* MinMaxFunc / SumOverflowFunc::UpdateBatch: while (HasMore()) Update(group)
RECURSIVE UpdateWhileHasMore(_, _, _, _, _)
UpdateWhileHasMore(f, st, batch, oob, ctype) ==
    IF HasMore(batch, f.cur)
    THEN LET r == FuncUpdate(f, st, batch, oob, ctype)
         IN  UpdateWhileHasMore([f EXCEPT !.cur = r.cur], r.st, batch, oob, ctype)
    ELSE StCur(st, f.cur)

\* AbstractAggFunc::UpdateBatch(group), by function class
FuncUpdateBatch(f, st, batch, oob, ctype) ==
    CASE f.func = "COUNT_STAR" -> StCur(Some(st.v + Len(batch)), f.cur)
      [] f.func = "COUNT" ->
            StCur(Some(st.v + NonNullCount(batch, f.column_name)), f.cur)
      [] OTHER -> UpdateWhileHasMore(f, st, batch, oob, ctype)

\* ---- Summarize / Result / DataType

\* SumOverflowFunc::HugeintToDecimal: Decimal128{upper, lower}
HugeintToDecimal(h) == HugeVal(h)

\* SumOverflowFunc::CopyBuilder: element i of the new decimal builder is
\* null when array_iter->IsNull(i) says so for the array the iterator is
\* bound to (the column of the last batch), and Decimal128{builder[i]}
\* otherwise.  IsNull(i) past the end of that array is out of bounds:
\* oobnulls[i] is what it yields.
CopyBuilder(f, batch, oobnulls) ==
    [i \in 1 .. Len(f.builder) |->
        LET isnull == IF i - 1 < Len(batch)
                      THEN batch[i][f.column_name].null
                      ELSE oobnulls[i]
        IN  IF isnull THEN None ELSE Some(f.builder[i].v)]

\* SumOverflowFunc::Summarize
SumSummarize(f, st, batch, oobnulls, ctype) ==
    IF ~st.null
    THEN IF f.is_overflow_mode
         THEN [f EXCEPT !.overflow_builder =
                            Append(@, Some(HugeintToDecimal(st.v)))]
         ELSE LET c == TryCastInteger(st.v, CType(ctype))
              IN  IF c.ok
                  THEN [f EXCEPT !.builder = Append(@, Some(c.result))]
                  ELSE [f EXCEPT !.is_overflow_mode = TRUE,
                                 !.overflow_builder =
                                     Append(CopyBuilder(f, batch, oobnulls),
                                            Some(HugeintToDecimal(st.v)))]
    ELSE IF f.is_overflow_mode
         THEN [f EXCEPT !.overflow_builder = Append(@, None)]
         ELSE [f EXCEPT !.builder = Append(@, None)]

\* AggFuncTemplate::Summarize (and the SumOverflowFunc override)
FuncSummarize(f, st, batch, oobnulls, ctype) ==
    IF f.func = "SUM"
    THEN SumSummarize(f, st, batch, oobnulls, ctype)
    ELSE [f EXCEPT !.builder = Append(@, IF st.null THEN None ELSE Some(st.v))]

\* AbstractAggFunc::Result(): the array of the builder in use
FuncResult(f) == IF f.is_overflow_mode THEN f.overflow_builder ELSE f.builder

\* AbstractAggFunc::DataType(): the builder types the factory sets, and the
\* decimal128(kMaxPrecision, 0) of the overflow builder
FuncDataType(f, ctype) ==
    CASE f.func \in {"COUNT", "COUNT_STAR"} -> "uint64"
      [] f.func = "GROUP_BUILDER" -> "int64"
      [] f.func \in {"MIN", "MAX"} -> ctype
      [] f.func = "SUM" -> IF f.is_overflow_mode THEN "decimal128" ELSE ctype


\* ------------------------------------------------------------ group keys
\* Low 16 bits of the hash-combine constant 0x9e3779b9.
HashMagic == 31161

RECURSIVE BitXor(_, _, _)
\* a ^ b over the low n bits
BitXor(a, b, n) ==
    IF n = 0 THEN 0
    ELSE ((a + b) % 2) + 2 * BitXor(a \div 2, b \div 2, n - 1)

\* seed ^= hash_val + 0x9e3779b9 + (seed << 6) + (seed >> 2), in a size_t
HashCombine(seed, hash_val) ==
    BitXor(seed,
           (hash_val + HashMagic + seed * 64 + (seed \div 4)) % TwoW,
           WordBits)

\* std::hash<uint64_t> (the identity in libstdc++)
IntHash(u) == u % TwoW

RECURSIVE HashFrom(_, _, _)
HashFrom(seed, key, i) ==
    IF i > Len(key) THEN seed
    ELSE HashFrom(HashCombine(seed, IF key[i].is_null THEN 0
                                    ELSE IntHash(key[i].value)), key, i + 1)

RECURSIVE HashFromValues(_, _, _)
HashFromValues(seed, key, i) ==
    IF i > Len(key) THEN seed
    ELSE HashFromValues(HashCombine(seed, IntHash(key[i].value)), key, i + 1)

\* Mutant of IntVectorHasher: the value under a null element is hashed too.
VectorHasherHashesNulls(key) == HashFromValues(Len(key) % TwoW, key, 1)

\* IntVectorHasher / ScalarsVectorHasher: seed = vec.size(), one combine
\* per element, 0 for a null element.
VectorHasher(key) == HashFrom(Len(key) % TwoW, key, 1)

\* Mutant of IntKeyValue::operator==: the value under a null is compared.
IntKeyValueEqNoNullCase(a, b) == a.is_null = b.is_null /\ a.value = b.value

\* IntKeyValue::operator==
IntKeyValueEq(a, b) ==
    a.is_null = b.is_null /\ (a.is_null \/ a.value = b.value)

\* std::vector<IntKeyValue>::operator== / ScalarsVectorEqualsFn (a null
\* Scalar equals a null Scalar of its type, whatever it holds)
VectorEq(k1, k2) ==
    /\ Len(k1) = Len(k2)
    /\ \A i \in 1 .. Len(k1) : IntKeyValueEq(k1[i], k2[i])

\* The key of a row as GetOrCreateEntry builds it.
\*   single : the uint64 of NextAsUInt64() (the null bit goes to null_group)
\*   multi  : IntKeyValue{NextAsUInt64(), IsNull()} per group-by column
\*   generic: column->GetScalar(row_idx) per group-by column; a null Scalar
\*            carries no value
MakeKey(variant, cells) ==
    CASE variant = "single" -> ToU64(cells[1].v)
      [] variant = "multi" ->
            [i \in 1 .. Len(cells) |->
                [value |-> ToU64(cells[i].v), is_null |-> cells[i].null]]
      [] variant = "generic" ->
            [i \in 1 .. Len(cells) |->
                [value |-> IF cells[i].null THEN 0 ELSE ToU64(cells[i].v),
                 is_null |-> cells[i].null]]

\* hash and equality of the map of a variant
KeyHash(variant, key) ==
    IF variant = "single" THEN IntHash(key) ELSE VectorHasher(key)

KeyEq(variant, a, b) ==
    IF variant = "single" THEN a = b ELSE VectorEq(a, b)

\* groups.find(key): index of the entry found, 0 for groups.end()
Find(groups, variant, key) ==
    LET hits == {i \in 1 .. Len(groups) :
                    /\ KeyHash(variant, groups[i].key) = KeyHash(variant, key)
                    /\ KeyEq(variant, groups[i].key, key)}
    IN  IF hits = {} THEN 0 ELSE CHOOSE i \in hits : \A j \in hits : i <= j

\* ------------------------------------------------------------- the driver
\* BaseAggregate after construction: names only.
NewAggregate ==
    [groupby_col_indices |-> <<>>, agg_col_indices |-> <<>>,
     agg_func_specs |-> <<>>, agg_funcs |-> <<>>,
     groups |-> <<>>,
     null_group |-> [present |-> FALSE, entry |-> <<>>],
     group |-> <<>>,
     iters |-> <<>>,
     batch |-> <<>>]

\* lookup_col_indices: appends the index of every name
LookupThrows(col_names) ==
    \E i \in 1 .. Len(col_names) : GetFieldIndex(col_names[i]) = 0 - 1

\* col_indices after the call: the indices pushed before it returned or
\* threw "Column not found"
LookupColIndices(col_names, col_indices) ==
    LET known == {n \in 0 .. Len(col_names) :
                    \A i \in 1 .. n : GetFieldIndex(col_names[i]) # 0 - 1}
        n == CHOOSE m \in known : \A k \in known : k <= m
    IN  col_indices \o [i \in 1 .. n |-> GetFieldIndex(col_names[i])]

\* the GROUP_BUILDER definitions EnsureInitAggFuncs synthesizes
GroupBuilderDefs(c) ==
    [i \in 1 .. Len(AggColNames(c)) |->
        [func |-> "GROUP_BUILDER", column_name |-> AggColNames(c)[i],
         out_col_name |-> AggColNames(c)[i]]]

\* EnsureInitAggFuncs leaves by the exception of lookup_col_indices
EnsureInitThrows(d, c) ==
    /\ d.agg_funcs = <<>>
    /\ LookupThrows(GroupbyColNames(c)) \/ LookupThrows(AggColNames(c))

\* BaseAggregate::EnsureInitAggFuncs, with the overrides of the single- and
\* multi-numeric drivers, which create the key iterators once.  When a
\* lookup throws, the indices pushed so far stay and nothing else is set.
EnsureInitAggFuncs(d, c) ==
    IF d.agg_funcs # <<>>
    THEN d
    ELSE IF LookupThrows(GroupbyColNames(c))
    THEN [d EXCEPT !.groupby_col_indices =
                        LookupColIndices(GroupbyColNames(c), @)]
    ELSE IF LookupThrows(AggColNames(c))
    THEN [d EXCEPT !.groupby_col_indices =
                        LookupColIndices(GroupbyColNames(c), @),
                   !.agg_col_indices = LookupColIndices(AggColNames(c), @)]
    ELSE LET specs == GroupBuilderDefs(c) \o InputAggSpecs(c)
         IN  [d EXCEPT
                !.groupby_col_indices =
                    LookupColIndices(GroupbyColNames(c), @),
                !.agg_col_indices = LookupColIndices(AggColNames(c), @),
                !.agg_funcs = [i \in 1 .. Len(specs) |-> NewFunc(specs[i])],
                !.agg_func_specs = specs]

\* SetBatchArrays dereferences GetFieldByName(column_name) of a function
\* whose non-empty column name the schema does not have: a null pointer.
SetBatchArraysDerefsNull(d) ==
    \E i \in 1 .. Len(d.agg_func_specs) :
        /\ d.agg_func_specs[i].column_name # ""
        /\ GetFieldIndex(d.agg_func_specs[i].column_name) = 0 - 1

\* What a dereference of a null pointer ends in: the process faults, or the
\* build turns the fault into an error of the call.
NullDerefOutcomes == {"crashed", "error"}

\* Mutant of SetBatchArrays: binding a batch also empties the map.
SetBatchArraysDropsGroups(d, c, batch) ==
    [d EXCEPT
        !.agg_funcs = [i \in 1 .. Len(@) |-> [@[i] EXCEPT !.cur = 0]],
        !.iters = IF c.variant \in {"single", "multi"}
                  THEN [i \in 1 .. Len(d.groupby_col_indices) |-> 0]
                  ELSE @,
        !.groups = <<>>,
        !.batch = batch]

\* Mutant of SetBatchArrays: the cursors of the functions and of the key
\* iterators are not reset when a batch is bound.
SetBatchArraysKeepsCursors(d, c, batch) ==
    [d EXCEPT
        !.iters = IF c.variant \in {"single", "multi"}
                  THEN [i \in 1 .. Len(d.groupby_col_indices) |->
                            IF i <= Len(@) THEN @[i] ELSE 0]
                  ELSE @,
        !.batch = batch]

\* BaseAggregate::SetBatchArrays, with the overrides: every function gets a
\* fresh iterator over its column of the batch, and the key iterators are
\* re-bound (SetArray resets the cursor).
SetBatchArrays(d, c, batch) ==
    [d EXCEPT
        !.agg_funcs = [i \in 1 .. Len(@) |-> [@[i] EXCEPT !.cur = 0]],
        !.iters = IF c.variant \in {"single", "multi"}
                  THEN [i \in 1 .. Len(d.groupby_col_indices) |-> 0]
                  ELSE @,
        !.batch = batch]

\* array_iter_factory(type): the class of the iterator made for a type id
ArrayIterFactory(type) ==
    CASE type \in {"INT8", "INT16", "INT32", "INT64", "UINT8", "UINT16",
                   "UINT32", "UINT64", "HALF_FLOAT", "DATE32", "DATE64",
                   "TIME32", "TIME64", "TIMESTAMP", "INTERVAL_MONTHS",
                   "DURATION"} -> "NumericArrayIter"
      [] type \in {"FLOAT", "DOUBLE"} -> "FloatArrayIter"
      [] type \in {"BOOL", "INTERVAL_DAY_TIME"} -> "GetViewArrayIter"
      [] type \in {"DECIMAL128", "DECIMAL256", "STRING", "BINARY",
                   "LARGE_STRING", "LARGE_BINARY", "FIXED_SIZE_BINARY"} ->
            "StringArrayIter"
      [] OTHER -> "GenericArrayIter"

\* NextAsUInt64() of an iterator class throws std::runtime_error: the
\* GetView iterators (StringArrayIter derives from GetViewArrayIter) and
\* GenericArrayIter do not support it.
NextAsUInt64Throws(iter_class) ==
    iter_class \in {"GetViewArrayIter", "StringArrayIter", "GenericArrayIter"}

\* SingleNumericalHashAggregate::GetOrCreateEntry throws on its first
\* statements: iter->NextAsUInt64() of the iterator that EnsureInitAggFuncs
\* made for the type of the group-by column.
GetOrCreateEntryThrows(c) ==
    c.variant = "single" /\ NextAsUInt64Throws(ArrayIterFactory(c.ktype))

\* the cells of the group-by columns the key of row row_idx is read from:
\* at the cursor of each key iterator (single, multi), at row_idx (generic)
KeyCells(d, c, row_idx, oob) ==
    [i \in 1 .. Len(d.groupby_col_indices) |->
        ReadCell(d.batch, ColName(d.groupby_col_indices[i]),
                 IF c.variant = "generic" THEN row_idx ELSE d.iters[i],
                 oob)]

\* GetOrCreateEntry of the three hash drivers: is_new_entry, the entry
\* (gid: 0 = null_group, i = i-th entry of groups) and the driver with the
\* key cursors advanced and, for a new key, an empty entry inserted.
GetOrCreateEntry(d, c, row_idx, oob) ==
    LET cells == KeyCells(d, c, row_idx, oob)
        key == MakeKey(c.variant, cells)
        d1 == [d EXCEPT !.iters = [i \in 1 .. Len(@) |-> @[i] + 1]]
        idx == Find(d.groups, c.variant, key)
    IN  IF c.variant = "single" /\ cells[1].null
        THEN IF ~d.null_group.present
             THEN [is_new_entry |-> TRUE, gid |-> 0,
                   d |-> [d1 EXCEPT !.null_group.present = TRUE]]
             ELSE [is_new_entry |-> FALSE, gid |-> 0, d |-> d1]
        ELSE IF idx = 0
             THEN [is_new_entry |-> TRUE, gid |-> Len(d.groups) + 1,
                   d |-> [d1 EXCEPT !.groups =
                                Append(@, [key |-> key, entry |-> <<>>])]]
             ELSE [is_new_entry |-> FALSE, gid |-> idx, d |-> d1]

\* entry of group gid
EntryOf(d, gid) == IF gid = 0 THEN d.null_group.entry ELSE d.groups[gid].entry

\* Mutant of WithEntry: the entry is written to every group of the map.
WithEntryEveryGroup(d, gid, entry) ==
    [d EXCEPT !.null_group.entry = IF gid = 0 THEN entry ELSE @,
              !.groups = [g \in 1 .. Len(@) |-> [@[g] EXCEPT !.entry = entry]]]

\* the driver with the entry of group gid replaced
WithEntry(d, gid, entry) ==
    IF gid = 0
    THEN [d EXCEPT !.null_group.entry = entry]
    ELSE [d EXCEPT !.groups[gid].entry = entry]

\* Mutant of ProcessRow: a new entry gets states of the user functions only
\* (the GROUP_BUILDER functions are skipped as they are on Update).
ProcessRowInitSkipsGroupBuilders(d, c, row_idx, oob) ==
    LET g == GetOrCreateEntry(d, c, row_idx, oob)
        n == Len(g.d.agg_funcs)
        first == Len(g.d.agg_col_indices) + 1
        old == EntryOf(g.d, g.gid)
        r == [i \in 1 .. n |->
                IF g.is_new_entry
                THEN FuncInit(g.d.agg_funcs[i], g.d.batch, row_idx, oob, c.ctype)
                ELSE FuncUpdate(g.d.agg_funcs[i], old[i - first + 1], g.d.batch,
                                oob, c.ctype)]
        d2 == [g.d EXCEPT !.agg_funcs =
                    [i \in 1 .. n |->
                        IF i >= first THEN [@[i] EXCEPT !.cur = r[i].cur]
                        ELSE @[i]]]
    IN  [d |-> WithEntry(d2, g.gid, [i \in 1 .. n - first + 1 |->
                                        r[i + first - 1].st]),
         gid |-> g.gid]

\* Body of the row loop of BaseAggregate::Next for one row: Init on every
\* function for a new entry, Update on the functions at index
\* >= agg_col_indices.size() otherwise.  [d, gid]
ProcessRow(d, c, row_idx, oob) ==
    LET g == GetOrCreateEntry(d, c, row_idx, oob)
        n == Len(g.d.agg_funcs)
        first == Len(g.d.agg_col_indices) + 1
        old == EntryOf(g.d, g.gid)
        r == [i \in 1 .. n |->
                IF g.is_new_entry
                THEN FuncInit(g.d.agg_funcs[i], g.d.batch, row_idx, oob, c.ctype)
                ELSE IF i >= first
                     THEN FuncUpdate(g.d.agg_funcs[i], old[i], g.d.batch,
                                     oob, c.ctype)
                     ELSE StCur(old[i], g.d.agg_funcs[i].cur)]
        d2 == [g.d EXCEPT !.agg_funcs =
                    [i \in 1 .. n |-> [@[i] EXCEPT !.cur = r[i].cur]]]
    IN  [d |-> WithEntry(d2, g.gid, [i \in 1 .. n |-> r[i].st]),
         gid |-> g.gid]

\* OneGroupAggregate::Next
OneGroupNext(d, c, batch, oob) ==
    LET d1 == SetBatchArrays(EnsureInitAggFuncs(d, c), c, batch)
        n == Len(d1.agg_funcs)
        ini == [i \in 1 .. n |->
                    IF d1.group = <<>>
                    THEN FuncInitBatch(d1.agg_funcs[i], batch, oob, c.ctype)
                    ELSE StCur(d1.group[i], d1.agg_funcs[i].cur)]
        upd == [i \in 1 .. n |->
                    IF i >= Len(d1.agg_col_indices) + 1
                    THEN FuncUpdateBatch([d1.agg_funcs[i] EXCEPT !.cur = ini[i].cur],
                                         ini[i].st, batch, oob, c.ctype)
                    ELSE ini[i]]
    IN  [d1 EXCEPT !.group = [i \in 1 .. n |-> upd[i].st],
                   !.agg_funcs = [i \in 1 .. n |-> [@[i] EXCEPT !.cur = upd[i].cur]]]


\* ---- SummarizeGroups / Result

\* the functions after Summarize(entry[agg_idx]) on each of them
SummarizeEntry(funcs, entry, batch, oobnulls, ctype) ==
    [i \in 1 .. Len(funcs) |->
        FuncSummarize(funcs[i], entry[i], batch, oobnulls, ctype)]

RECURSIVE SummarizeInOrder(_, _, _, _, _, _, _)
\* the loop over the map, in the order the map enumerates its entries
SummarizeInOrder(funcs, groups, order, k, batch, oobnulls, ctype) ==
    IF k > Len(order) THEN funcs
    ELSE SummarizeInOrder(
            SummarizeEntry(funcs, groups[order[k]].entry, batch, oobnulls, ctype),
            groups, order, k + 1, batch, oobnulls, ctype)

\* Mutant of SingleNumericalHashAggregate::SummarizeGroups: no null group.
SummarizeGroupsNoNullGroup(d, c, order, oobnulls) ==
    IF c.variant = "one"
    THEN IF d.agg_funcs = <<>> THEN d.agg_funcs
         ELSE SummarizeEntry(d.agg_funcs, d.group, d.batch, oobnulls, c.ctype)
    ELSE SummarizeInOrder(d.agg_funcs, d.groups, order, 1, d.batch,
                          oobnulls, c.ctype)

\* SummarizeGroups of the four drivers: the functions with their builders
\* filled.  `order` is the enumeration order of the map; the single-numeric
\* driver summarizes its null group last.
SummarizeGroups(d, c, order, oobnulls) ==
    IF c.variant = "one"
    THEN IF d.agg_funcs = <<>> THEN d.agg_funcs
         ELSE SummarizeEntry(d.agg_funcs, d.group, d.batch, oobnulls, c.ctype)
    ELSE LET fs == SummarizeInOrder(d.agg_funcs, d.groups, order, 1, d.batch,
                                    oobnulls, c.ctype)
         IN  IF c.variant = "single" /\ d.null_group.present
             THEN SummarizeEntry(fs, d.null_group.entry, d.batch, oobnulls,
                                 c.ctype)
             ELSE fs

\* BaseAggregate::Result: the record batch (schema, columns, num_rows)
ResultBatch(d, c, order, oobnulls) ==
    LET fs == SummarizeGroups(d, c, order, oobnulls)
        cols == [i \in 1 .. Len(fs) |-> FuncResult(fs[i])]
    IN  [schema |-> [i \in 1 .. Len(fs) |->
                        [name |-> d.agg_func_specs[i].out_col_name,
                         type |-> FuncDataType(fs[i], c.ctype)]],
         columns |-> cols,
         num_rows |-> IF Len(cols) > 0 /\ Len(cols[1]) > 0
                      THEN Len(cols[1]) ELSE 0]

\* ArrayBuilder::Finish in Result() of each function: the builder in use
\* hands its elements over and is empty again
FinishBuilders(fs) ==
    [i \in 1 .. Len(fs) |->
        IF fs[i].is_overflow_mode
        THEN [fs[i] EXCEPT !.overflow_builder = <<>>]
        ELSE [fs[i] EXCEPT !.builder = <<>>]]

\* the group ids in the order SummarizeGroups visits them
SummarizedGids(d, c, order) ==
    IF c.variant = "one" THEN <<>>
    ELSE order \o (IF c.variant = "single" /\ d.null_group.present
                   THEN <<0>> ELSE <<>>)

\* number of entries of the map, the null group included
NumGroups(d) == Len(d.groups) + (IF d.null_group.present THEN 1 ELSE 0)

\* enumeration orders of a map of n entries
Orders(n) ==
    {p \in [1 .. n -> 1 .. n] : \A i, j \in 1 .. n : p[i] = p[j] => i = j}

\* ---------------------------------------------------- hugeint_t division
\* number of bits of an unsigned word up to its highest set bit
RECURSIVE BitLen(_)
BitLen(u) == IF u = 0 THEN 0 ELSE 1 + BitLen(u \div 2)

\* positive_hugeint_highest_bit
PositiveHugeintHighestBit(bits) ==
    IF bits.upper # 0
    THEN WordBits + BitLen(ToU64(bits.upper))
    ELSE BitLen(bits.lower)

\* positive_hugeint_is_bit_set
PositiveHugeintIsBitSet(lhs, bit_position) ==
    IF bit_position < WordBits
    THEN (lhs.lower \div Pow2(bit_position)) % 2 = 1
    ELSE (ToU64(lhs.upper) \div Pow2(bit_position - WordBits)) % 2 = 1

\* positive_hugeint_leftshift
PositiveHugeintLeftshift(lhs, amount) ==
    MkHuge(ToI64(ToU64(lhs.upper * Pow2(amount)
                       + lhs.lower \div Pow2(WordBits - amount))),
           (lhs.lower * Pow2(amount)) % TwoW)

\* Hugeint::NegateInPlace
NegateInPlace(input) ==
    LET lo == (U64Max - input.lower + 1) % TwoW
    IN  MkHuge(ToI64(ToU64(0 - 1 - input.upper + (IF lo = 0 THEN 1 ELSE 0))),
               lo)

\* Hugeint::GreaterThanEquals
GreaterThanEquals(lhs, rhs) ==
    lhs.upper > rhs.upper \/ (lhs.upper = rhs.upper /\ lhs.lower >= rhs.lower)

\* hugeint_t(int64_t value)
HugeOfInt64(value) == HugeintConvert("i64", value)

\* hugeint_t::operator>>(rhs)
ShiftRight(v, rhs) ==
    LET shift == rhs.lower
        up == ToU64(v.upper)
    IN  IF v.upper < 0 THEN HugeOfInt64(0)
        ELSE IF rhs.upper # 0 \/ shift >= 2 * WordBits THEN HugeOfInt64(0)
        ELSE IF shift = WordBits THEN MkHuge(0, up)
        ELSE IF shift = 0 THEN v
        ELSE IF shift < WordBits
        THEN MkHuge(ToI64(up \div Pow2(shift)),
                    (up * Pow2(WordBits - shift)
                        + v.lower \div Pow2(shift)) % TwoW)
        ELSE MkHuge(0, up \div Pow2(shift - WordBits))

\* hugeint_t::operator<<(rhs); 0x7FFFFFFFFFFFFFFF is I64Max
ShiftLeft(v, rhs) ==
    LET shift == rhs.lower
        up == ToU64(v.upper)
    IN  IF v.upper < 0 THEN HugeOfInt64(0)
        ELSE IF rhs.upper # 0 \/ shift >= 2 * WordBits THEN HugeOfInt64(0)
        ELSE IF shift = WordBits THEN MkHuge(ToI64(v.lower), 0)
        ELSE IF shift = 0 THEN v
        ELSE IF shift < WordBits
        THEN MkHuge(((up * Pow2(shift)
                          + v.lower \div Pow2(WordBits - shift)) % TwoW)
                        % (I64Max + 1),
                    (v.lower * Pow2(shift)) % TwoW)
        ELSE MkHuge(((v.lower * Pow2(shift - WordBits)) % TwoW) % (I64Max + 1),
                    0)

\* The loop of Hugeint::DivMod over the bits x .. 1 of lhs.  Hugeint::Subtract
\* throws when SubtractInPlace reports an underflow.
RECURSIVE DivModLoop(_, _, _, _, _)
DivModLoop(x, lhs, rhs, div_result, remainder) ==
    IF x = 0
    THEN [div |-> div_result, rem |-> remainder, threw |-> FALSE]
    ELSE LET d1 == PositiveHugeintLeftshift(div_result, 1)
             r1 == PositiveHugeintLeftshift(remainder, 1)
             r2 == IF PositiveHugeintIsBitSet(lhs, x - 1)
                   THEN AddInPlace(r1, HugeOfInt64(1)).val
                   ELSE r1
             ge == GreaterThanEquals(r2, rhs)
             sub == SubtractInPlace(r2, rhs)
         IN  IF ge /\ ~sub.ok
             THEN [div |-> d1, rem |-> r2, threw |-> TRUE]
             ELSE DivModLoop(x - 1, lhs, rhs,
                             IF ge THEN AddInPlace(d1, HugeOfInt64(1)).val
                                   ELSE d1,
                             IF ge THEN sub.val ELSE r2)

\* Mutant of DivMod: the remainder of a negative dividend is not negated.
DivModRemainderNotNegated(lhs, rhs) ==
    LET lhs_negative == lhs.upper < 0
        rhs_negative == rhs.upper < 0
        l == IF lhs_negative THEN NegateInPlace(lhs) ELSE lhs
        r == IF rhs_negative THEN NegateInPlace(rhs) ELSE rhs
        res == DivModLoop(PositiveHugeintHighestBit(l), l, r,
                          HugeZero, HugeZero)
    IN  [div |-> IF lhs_negative # rhs_negative
                 THEN NegateInPlace(res.div) ELSE res.div,
         rem |-> res.rem,
         threw |-> res.threw]

\* Hugeint::DivMod: quotient, remainder, and whether Subtract threw
DivMod(lhs, rhs) ==
    LET lhs_negative == lhs.upper < 0
        rhs_negative == rhs.upper < 0
        l == IF lhs_negative THEN NegateInPlace(lhs) ELSE lhs
        r == IF rhs_negative THEN NegateInPlace(rhs) ELSE rhs
        res == DivModLoop(PositiveHugeintHighestBit(l), l, r,
                          HugeZero, HugeZero)
    IN  [div |-> IF lhs_negative # rhs_negative
                 THEN NegateInPlace(res.div) ELSE res.div,
         rem |-> IF lhs_negative THEN NegateInPlace(res.rem) ELSE res.rem,
         threw |-> res.threw]

\* Hugeint::TryCast(hugeint_t, double&).  double(numeric_limits<uint64_t>::
\* max()) is 2^64 (the nearest double), hence TwoW.  Doubles are modelled as
\* exact numbers: rounding is left out.
HugeintToDouble(input) ==
    IF input.upper = 0 - 1
    THEN 0 - (U64Max - input.lower) - 1
    ELSE input.lower + input.upper * TwoW

\* ---------------------------------------------------------------- AvgFunc
\* Input column types of AVG that are modelled: one 32-bit integer type,
\* both 64-bit integer types, and one 64-bit type (duration) whose
\* accumulator is an int64_t.
AvgTypes == {"int32", "int64", "uint64", "duration"}

\* agg_func_factory, case AVG: T_SUM is hugeint_t for INT64 and UINT64, and
\* int64_t for INT32 and DURATION.
AvgSumIsHuge(T) == T \in {"int64", "uint64"}

\* AvgFunc::InitPair: (val, 1); hugeint_t(int64_t) or Hugeint::Convert(val)
\* when T_SUM is hugeint_t.
AvgInitPair(T, val) ==
    [first |-> IF AvgSumIsHuge(T) THEN HugeintConvert(CType(T), val) ELSE val,
     second |-> 1]

\* AvgFunc::Add.  With T_SUM = int64_t, `add_to += val` is a signed addition:
\* past the range of int64_t it is undefined; the build either wraps or
\* traps.  The set of [trap, val] outcomes.
AvgAdd(T, add_to, val) ==
    IF AvgSumIsHuge(T)
    THEN {[trap |-> FALSE,
           val |-> HugePlusEq(add_to, HugeintConvert(CType(T), val))]}
    ELSE IF add_to + val \in I64Min .. I64Max
         THEN {[trap |-> FALSE, val |-> add_to + val]}
         ELSE {[trap |-> FALSE, val |-> ToI64(ToU64(add_to + val))],
               [trap |-> TRUE, val |-> add_to]}

\* the null state of AVG (a null shared_ptr)
AvgNone == [null |-> TRUE, v |-> [first |-> 0, second |-> 0]]

\* AvgFunc::Init
AvgInit(T, batch) ==
    LET n == NextIfNull(batch, "c", 0, None)
    IN  IF n.is_null
        THEN StCur(AvgNone, n.cur)
        ELSE LET x == IterNext(batch, "c", n.cur, None)
             IN  StCur(Some(AvgInitPair(T, x.val)), x.cur)

\* AvgFunc::Update: the set of [st, cur, trap] outcomes
AvgUpdate(T, st, batch, cur) ==
    LET n == NextIfNull(batch, "c", cur, None)
        x == IterNext(batch, "c", n.cur, None)
    IN  IF n.is_null THEN {[st |-> st, cur |-> n.cur, trap |-> FALSE]}
        ELSE IF st.null
        THEN {[st |-> Some(AvgInitPair(T, x.val)), cur |-> x.cur,
               trap |-> FALSE]}
        ELSE {[st |-> Some([first |-> a.val,
                            second |-> (st.v.second + 1) % TwoW]),
               cur |-> x.cur, trap |-> a.trap] :
              a \in AvgAdd(T, st.v.first, x.val)}

\* AvgFunc::ComputeAvg as the fraction num / den.  T_SUM = hugeint_t: the
\* quotient cast to double, plus the remainder cast to double over count
\* (count becomes a hugeint_t through hugeint_t(int64_t)); otherwise
\* sum / static_cast<double>(count).
ComputeAvg(T, sum, count) ==
    IF AvgSumIsHuge(T)
    THEN LET dm == DivMod(sum, HugeOfInt64(ToI64(count)))
         IN  [num |-> HugeintToDouble(dm.div) * count + HugeintToDouble(dm.rem),
              den |-> count]
    ELSE [num |-> sum, den |-> count]

\* AvgFunc::Summarize: the element appended to the builder
AvgSummarize(T, st) ==
    IF st.null THEN None ELSE Some(ComputeAvg(T, st.v.first, st.v.second))

\* -------------------------------------------------------- agg_func_factory
\* arrow::TimeUnit
TimeUnits == {"s", "ms", "us", "ns"}

\* An arrow::DataType: its type id and, for the types that have one, its
\* time unit.
DType(id, unit) == [id |-> id, unit |-> unit]

\* type ids without a parameter that matters here (the nested types stand
\* for every id of the `default:` group of the factory)
PlainTypeIds ==
    {"BOOL", "INT8", "INT16", "INT32", "INT64", "UINT8", "UINT16", "UINT32",
     "UINT64", "HALF_FLOAT", "FLOAT", "DOUBLE", "DATE32", "DATE64",
     "INTERVAL_MONTHS", "INTERVAL_DAY_TIME", "DECIMAL128", "DECIMAL256",
     "STRING", "BINARY", "LARGE_STRING", "LARGE_BINARY", "FIXED_SIZE_BINARY",
     "STRUCT", "LIST", "MAP", "DICTIONARY"}

\* the types a field of the input schema can have
FieldTypes ==
    {DType(id, "") : id \in PlainTypeIds}
        \cup {DType("TIME32", u) : u \in {"s", "ms"}}
        \cup {DType("TIME64", u) : u \in {"us", "ns"}}
        \cup {DType(id, u) : id \in {"TIMESTAMP", "DURATION"}, u \in TimeUnits}

\* AggFuncType
AggFuncTypes ==
    {"COUNT", "COUNT_STAR", "MIN", "MAX", "SUM", "AVG", "GROUP_BUILDER"}

NestedTypeIds == {"STRUCT", "LIST", "MAP", "DICTIONARY"}

\* type ids the MIN / MAX and GROUP_BUILDER cases of the factory serve
MinMaxTypeIds ==
    (PlainTypeIds \ NestedTypeIds) \cup {"TIME32", "TIME64", "TIMESTAMP", "DURATION"}

\* the function the factory made: the type its builder was given, which
\* DataType() returns
Made(type) == [threw |-> FALSE, type |-> type]

\* std::runtime_error("Column data type is not supported ...")
NotSupported == [threw |-> TRUE, type |-> DType("NA", "")]

\* agg_func_factory, case SUM
FactorySum(field_type) ==
    CASE field_type.id \in {"INT8", "INT16", "INT32", "INT64"} ->
            Made(DType("INT64", ""))
      [] field_type.id \in {"UINT8", "UINT16", "UINT32", "UINT64"} ->
            Made(DType("UINT64", ""))
      [] field_type.id \in {"HALF_FLOAT", "FLOAT", "DOUBLE"} ->
            Made(DType("DOUBLE", ""))
      [] field_type.id = "TIME32" -> Made(DType("TIME32", field_type.unit))
      [] field_type.id = "TIME64" -> Made(DType("TIME64", field_type.unit))
      [] field_type.id = "DURATION" -> Made(DType("TIME64", field_type.unit))
      [] OTHER -> NotSupported

\* agg_func_factory, case AVG
FactoryAvg(field_type) ==
    CASE field_type.id \in {"INT8", "INT16", "UINT8", "UINT16"} ->
            Made(DType("FLOAT", ""))
      [] field_type.id \in {"INT32", "INT64", "UINT32", "UINT64",
                            "HALF_FLOAT", "FLOAT", "DOUBLE",
                            "TIME32", "TIME64", "DURATION"} ->
            Made(DType("DOUBLE", ""))
      [] OTHER -> NotSupported

\* agg_func_factory(func, schema): field_type is the type of the column
\* func.column_name, and uint64 when the definition names no column.
AggFuncFactory(func, field_type) ==
    CASE func \in {"COUNT", "COUNT_STAR"} -> Made(DType("UINT64", ""))
      [] func \in {"MIN", "MAX", "GROUP_BUILDER"} ->
            IF field_type.id \in MinMaxTypeIds
            THEN Made(field_type) ELSE NotSupported
      [] func = "SUM" -> FactorySum(field_type)
      [] func = "AVG" -> FactoryAvg(field_type)

\* -------------------------------------------------------- StringMinMaxFunc
\* Byte strings (the values of string, binary and decimal columns as
\* arrow::util::string_view).
StrVals == {<<>>, <<1>>, <<1, 2>>, <<2>>}

\* column types served by StringMinMaxFunc (agg_func_factory, MIN / MAX)
StringTypeIds ==
    {"DECIMAL128", "DECIMAL256", "STRING", "BINARY", "LARGE_STRING",
     "LARGE_BINARY", "FIXED_SIZE_BINARY"}

RECURSIVE StrLess(_, _)
\* string_view operator<: lexicographic on the bytes
StrLess(a, b) ==
    IF b = <<>> THEN FALSE
    ELSE IF a = <<>> THEN TRUE
    ELSE IF a[1] # b[1] THEN a[1] < b[1]
    ELSE StrLess(Tail(a), Tail(b))

\* A MinMaxFunc<T> (class "MinMaxFunc") or StringMinMaxFunc as the factory
\* makes it for MIN / MAX over a column of type `type`: array_iter of
\* MinMaxFunc and str_iter of StringMinMaxFunc are both nullptr.  cur is the
\* cursor of the iterator once one is bound.
NewMinMax(type, is_max) ==
    [class |-> IF type \in StringTypeIds
               THEN "StringMinMaxFunc" ELSE "MinMaxFunc",
     func |-> IF is_max THEN "MAX" ELSE "MIN", column_name |-> "c",
     is_max |-> is_max, str_iter_set |-> FALSE, array_iter_set |-> FALSE,
     cur |-> 0]

\* no function object (the other specifications)
NoFunc == NewMinMax("INT64", FALSE)

\* SetArrayIter: MinMaxFunc binds array_iter; the override of
\* StringMinMaxFunc binds str_iter, and array_iter of the base class is not
\* assigned.
MinMaxSetArrayIter(f) ==
    IF f.class = "StringMinMaxFunc"
    THEN [f EXCEPT !.str_iter_set = TRUE, !.cur = 0]
    ELSE [f EXCEPT !.array_iter_set = TRUE, !.cur = 0]

\* StringMinMaxFunc::Init: [st, cur]
StringMinMaxInit(f, batch, oob) ==
    LET n == NextIfNull(batch, "c", f.cur, oob)
    IN  IF n.is_null
        THEN StCur(None, n.cur)
        ELSE LET x == IterNext(batch, "c", n.cur, oob)
             IN  StCur(Some(x.val), x.cur)

\* StringMinMaxFunc::Update: [st, cur]
StringMinMaxUpdate(f, st, batch, oob) ==
    LET n == NextIfNull(batch, "c", f.cur, oob)
        x == IterNext(batch, "c", n.cur, oob)
    IN  IF n.is_null THEN StCur(st, n.cur)
        ELSE IF st.null THEN StCur(Some(x.val), x.cur)
        ELSE IF StrLess(x.val, st.v) # f.is_max
             THEN StCur(Some(x.val), x.cur)
             ELSE StCur(st, x.cur)

\* MinMaxFunc::InitBatch: Init(0), virtual
MinMaxInitBatch(f, batch, oob) ==
    IF f.class = "StringMinMaxFunc"
    THEN StringMinMaxInit(f, batch, oob)
    ELSE MinMaxInit(f, batch, oob)

\* MinMaxFunc::UpdateBatch evaluates this->array_iter->HasMore() on the
\* array_iter of MinMaxFunc: a null pointer unless it was bound.
UpdateBatchDerefsNull(f) == ~f.array_iter_set

RECURSIVE MinMaxUpdateBatch(_, _, _, _)
\* MinMaxFunc::UpdateBatch with a bound array_iter: Update (virtual) while
\* HasMore().  [st, cur]
MinMaxUpdateBatch(f, st, batch, oob) ==
    IF HasMore(batch, f.cur)
    THEN LET r == IF f.class = "StringMinMaxFunc"
                  THEN StringMinMaxUpdate(f, st, batch, oob)
                  ELSE MinMaxUpdate(f, st, batch, oob)
         IN  MinMaxUpdateBatch([f EXCEPT !.cur = r.cur], r.st, batch, oob)
    ELSE StCur(st, f.cur)

\* ------------------------------------------------ key iterators on slices
\* An arrow array as NumericArrayIter sees it: the buffers of the parent
\* array (one slot per element: validity bit and value; a null slot still
\* has a value beneath it), the offset of the slice and its length.
MaxBuf == 3

KeySlots == {[null |-> TRUE, v |-> 1], Some(0), Some(1)}

Slices(len) ==
    [buf : [1 .. MaxBuf -> KeySlots], offset : 0 .. MaxBuf - len, length : {len}]

\* NumericArrayIter::SetArray: raw_values() points at the first element of
\* the slice, null_bitmap_data() at the start of the parent's bitmap.
NumericArrayIterSetArray(arr) ==
    [array |-> arr, native_arr_ptr |-> arr.offset, nulls_idx |-> arr.offset,
     current_idx |-> 0, length |-> arr.length]

\* ArrayIter::IsNull(): the validity bit at nulls_idx
ArrayIterIsNull(it) == it.array.buf[it.nulls_idx + 1].null

\* NumericArrayIter::MoveNext
NumericArrayIterMoveNext(it) ==
    [it EXCEPT !.current_idx = @ + 1, !.nulls_idx = @ + 1,
               !.native_arr_ptr = @ + 1]

\* NumericArrayIter::NextAsUInt64: [val, it]
NumericArrayIterNextAsUInt64(it) ==
    [val |-> ToU64(it.array.buf[it.native_arr_ptr + 1].v),
     it |-> NumericArrayIterMoveNext(it)]

\* Mutant of IntKeyValueOf: the null bit is read after NextAsUInt64().
IntKeyValueOfNullAfterNext(it) ==
    LET n == NumericArrayIterNextAsUInt64(it)
    IN  [kv |-> [value |-> n.val,
                 is_null |-> IF n.it.nulls_idx < MaxBuf
                             THEN ArrayIterIsNull(n.it) ELSE FALSE],
         it |-> n.it]

\* The key component GetOrCreateEntry of the single and the multi variant
\* takes from one key iterator: is_null = IsNull(), then NextAsUInt64().
\* [kv, it]
IntKeyValueOf(it) ==
    LET is_null == ArrayIterIsNull(it)
        n == NumericArrayIterNextAsUInt64(it)
    IN  [kv |-> [value |-> n.val, is_null |-> is_null], it |-> n.it]

\* ------------------------------------------------------------------ state
VARIABLES
    cfg,        \* constructor arguments and column type of the run
    pc,         \* "idle", "rows" (inside the row loop of Next), "done"
    agg,        \* the aggregate object
    row_idx,    \* loop variable of BaseAggregate::Next
    result,     \* the batch Result() returned
    pushed,     \* history: all rows passed to Next so far, in order
    nbatches,   \* history: number of Next calls started
    row_group,  \* history: the group each processed row was folded into
    out_gids,   \* history: group of each output row
    h_pc, h_T, h_x, h_in, h_conv, h_ok, h_res,  \* Hugeint cast harness
    a_pc, a_lhs, a_rhs, a_ok, a_out,            \* Hugeint arithmetic harness
    f_pc,       \* aggregate-function harness: "new", "rows", "summarized", ...
    f_type,     \* type of the aggregated column
    f_obj,      \* the function object (one-group MIN / MAX)
    f_seen,     \* history: all rows passed to the function (one-group MIN / MAX)
    f_batch,    \* the rows of one group, bound to the function's iterator
    f_cur,      \* cursor of the function's iterator
    f_st,       \* the group's state for the function
    f_out,      \* the element Summarize appended to the builder
    t_pc,       \* factory harness: "def", "made", "error"
    t_func,     \* AggFuncDef::func
    t_field,    \* type of the column AggFuncDef::column_name
    t_dtype     \* DataType() of the function made

vars == <<cfg, pc, agg, row_idx, result, pushed, nbatches, row_group,
          out_gids, h_pc, h_T, h_x, h_in, h_conv, h_ok, h_res,
          a_pc, a_lhs, a_rhs, a_ok, a_out,
          f_pc, f_type, f_obj, f_seen, f_batch, f_cur, f_st, f_out,
          t_pc, t_func, t_field, t_dtype>>

driver_vars == <<cfg, pc, agg, row_idx, result, pushed, nbatches, row_group,
                 out_gids>>

hugeint_vars == <<h_pc, h_T, h_x, h_in, h_conv, h_ok, h_res>>

arith_vars == <<a_pc, a_lhs, a_rhs, a_ok, a_out>>

func_vars == <<f_pc, f_type, f_obj, f_seen, f_batch, f_cur, f_st, f_out>>

factory_vars == <<t_pc, t_func, t_field, t_dtype>>

NoResult == [schema |-> <<>>, columns |-> <<>>, num_rows |-> 0]

\* the cast harness at rest (driver specification)
HugeintIdle ==
    /\ h_pc = "off" /\ h_T = "i64" /\ h_x = 0 /\ h_in = HugeZero
    /\ h_conv = FALSE /\ h_ok = FALSE /\ h_res = 0

\* the arithmetic harness at rest
ArithIdle ==
    /\ a_pc = "off" /\ a_lhs = HugeZero /\ a_rhs = HugeZero
    /\ a_ok = FALSE /\ a_out = HugeZero

\* the aggregate-function harness at rest
FuncIdle ==
    /\ f_pc = "off" /\ f_type = "int64" /\ f_batch = <<>> /\ f_cur = 0
    /\ f_obj = NoFunc /\ f_seen = <<>>
    /\ f_st = None /\ f_out = None

\* the factory harness at rest
FactoryIdle ==
    /\ t_pc = "off" /\ t_func = "COUNT_STAR" /\ t_field = DType("UINT64", "")
    /\ t_dtype = DType("NA", "")

\* the driver at rest (Hugeint specification)
DriverIdle ==
    /\ cfg = [variant |-> "one", ctype |-> "int64", project |-> FALSE,
              defs |-> TRUE, unknown |-> "", ktype |-> "INT64"]
    /\ pc = "off" /\ agg = NewAggregate /\ row_idx = 0 /\ result = NoResult
    /\ pushed = <<>> /\ nbatches = 0 /\ row_group = <<>> /\ out_gids = <<>>

\* ------------------------------------------------- driver specification
Init ==
    /\ cfg \in Configs
    /\ pc = "idle"
    /\ agg = NewAggregate
    /\ row_idx = 0
    /\ result = NoResult
    /\ pushed = <<>>
    /\ nbatches = 0
    /\ row_group = <<>>
    /\ out_gids = <<>>
    /\ HugeintIdle
    /\ ArithIdle
    /\ FuncIdle
    /\ FactoryIdle

\* batches of at most n rows
Batches(c, n) == UNION {[1 .. k -> Rows(c)] : k \in 0 .. n}

\* BaseAggregate::Next, up to the row loop: EnsureInitAggFuncs and
\* SetBatchArrays on a batch of the caller.  The call ends in "error" when
\* a column lookup throws; the driver is not used after an error.
NextBegin ==
    /\ pc = "idle"
    /\ cfg.variant # "one"
    /\ nbatches < MaxBatches
    /\ \E b \in Batches(cfg, MaxRows - Len(pushed)) :
        LET d == EnsureInitAggFuncs(agg, cfg)
        IN  /\ pushed' = pushed \o b
            /\ IF EnsureInitThrows(agg, cfg)
               THEN agg' = d /\ pc' = "error"
               ELSE IF SetBatchArraysDerefsNull(d)
               THEN agg' = d /\ pc' \in NullDerefOutcomes
               ELSE agg' = SetBatchArrays(d, cfg, b) /\ pc' = "rows"
    /\ nbatches' = nbatches + 1
    /\ row_idx' = 0
    /\ UNCHANGED <<cfg, result, row_group, out_gids>>
    /\ UNCHANGED hugeint_vars
    /\ UNCHANGED arith_vars
    /\ UNCHANGED func_vars
    /\ UNCHANGED factory_vars

\* One iteration of the row loop of BaseAggregate::Next.  The cursors stay
\* inside the batch here, so no read is out of bounds (oob is unused).
NextRow ==
    /\ pc = "rows"
    /\ row_idx < Len(agg.batch)
    /\ IF GetOrCreateEntryThrows(cfg)
       THEN /\ pc' = "error"
            /\ UNCHANGED <<agg, row_group, row_idx>>
       ELSE /\ LET r == ProcessRow(agg, cfg, row_idx, None)
               IN  /\ agg' = r.d
                   /\ row_group' = Append(row_group, r.gid)
            /\ row_idx' = row_idx + 1
            /\ pc' = pc
    /\ UNCHANGED <<cfg, result, pushed, nbatches, out_gids>>
    /\ UNCHANGED hugeint_vars
    /\ UNCHANGED arith_vars
    /\ UNCHANGED func_vars
    /\ UNCHANGED factory_vars

\* The row loop ends: Next returns.
NextEnd ==
    /\ pc = "rows"
    /\ row_idx = Len(agg.batch)
    /\ pc' = "idle"
    /\ UNCHANGED <<cfg, agg, row_idx, result, pushed, nbatches, row_group,
                   out_gids>>
    /\ UNCHANGED hugeint_vars
    /\ UNCHANGED arith_vars
    /\ UNCHANGED func_vars
    /\ UNCHANGED factory_vars

\* OneGroupAggregate::Next on a batch of the caller.  With an empty batch
\* InitBatch reads element 0 of an empty column: the read yields any cell.
OneGroupNextCall ==
    /\ pc = "idle"
    /\ cfg.variant = "one"
    /\ nbatches < MaxBatches
    /\ \E b \in Batches(cfg, MaxRows - Len(pushed)) :
       \E oob \in CCells(cfg.ctype) :
        /\ agg' = OneGroupNext(agg, cfg, b, oob)
        /\ pushed' = pushed \o b
    /\ nbatches' = nbatches + 1
    /\ UNCHANGED <<cfg, pc, row_idx, result, row_group, out_gids>>
    /\ UNCHANGED hugeint_vars
    /\ UNCHANGED arith_vars
    /\ UNCHANGED func_vars
    /\ UNCHANGED factory_vars

\* BaseAggregate::Result.  The map enumerates its entries in any order; an
\* IsNull(i) of CopyBuilder past the end of the bound array yields any bit.
ResultCall ==
    /\ pc = "idle"
    /\ \E order \in Orders(Len(agg.groups)) :
       \E oobnulls \in [Len(agg.batch) + 1 .. NumGroups(agg) - 1 -> BOOLEAN] :
        /\ result' = ResultBatch(agg, cfg, order, oobnulls)
        /\ agg' = [agg EXCEPT !.agg_funcs =
                        FinishBuilders(SummarizeGroups(agg, cfg, order, oobnulls))]
        /\ out_gids' = SummarizedGids(agg, cfg, order)
    /\ pc' = "done"
    /\ UNCHANGED <<cfg, row_idx, pushed, nbatches, row_group>>
    /\ UNCHANGED hugeint_vars
    /\ UNCHANGED arith_vars
    /\ UNCHANGED func_vars
    /\ UNCHANGED factory_vars

Next == NextBegin \/ NextRow \/ NextEnd \/ OneGroupNextCall \/ ResultCall

Spec == Init /\ [][Next]_vars

\* ------------------------------------------------ Hugeint specification
\* Inputs of the cast functions: either an integer x of type T to Convert,
\* or any hugeint_t to TryCast to T.
InitHugeint ==
    /\ DriverIdle
    /\ ArithIdle
    /\ FuncIdle
    /\ FactoryIdle
    /\ h_T \in IntTypes
    /\ \/ /\ h_pc = "int" /\ h_x \in TypeRange(h_T) /\ h_in = HugeZero
       \/ /\ h_pc = "huge" /\ h_x = 0 /\ h_in \in Hugeints
    /\ h_conv = FALSE /\ h_ok = FALSE /\ h_res = 0

\* Hugeint::Convert<T>(x)
ConvertCall ==
    /\ h_pc = "int"
    /\ h_in' = HugeintConvert(h_T, h_x)
    /\ h_conv' = TRUE
    /\ h_pc' = "huge"
    /\ UNCHANGED <<h_T, h_x, h_ok, h_res>>
    /\ UNCHANGED driver_vars
    /\ UNCHANGED arith_vars
    /\ UNCHANGED func_vars
    /\ UNCHANGED factory_vars

\* Hugeint::TryCast<T>(input, result)
TryCastCall ==
    /\ h_pc = "huge"
    /\ LET r == TryCastInteger(h_in, h_T)
       IN  h_ok' = r.ok /\ h_res' = r.result
    /\ h_pc' = "cast"
    /\ UNCHANGED <<h_T, h_x, h_in, h_conv>>
    /\ UNCHANGED driver_vars
    /\ UNCHANGED arith_vars
    /\ UNCHANGED func_vars
    /\ UNCHANGED factory_vars

NextHugeint == ConvertCall \/ TryCastCall

SpecHugeint == InitHugeint /\ [][NextHugeint]_vars


\* ------------------------------------- Hugeint arithmetic specification
\* Operands of the in-place operations: any two hugeint_t.
InitArith ==
    /\ DriverIdle
    /\ HugeintIdle
    /\ FuncIdle
    /\ FactoryIdle
    /\ a_pc = "args"
    /\ a_lhs \in Hugeints
    /\ a_rhs \in Hugeints
    /\ a_ok = FALSE
    /\ a_out = HugeZero

\* Hugeint::AddInPlace(lhs, rhs)
AddInPlaceCall ==
    /\ a_pc = "args"
    /\ LET r == AddInPlace(a_lhs, a_rhs)
       IN  a_ok' = r.ok /\ a_out' = r.val
    /\ a_pc' = "added"
    /\ UNCHANGED <<a_lhs, a_rhs>>
    /\ UNCHANGED driver_vars
    /\ UNCHANGED hugeint_vars
    /\ UNCHANGED func_vars
    /\ UNCHANGED factory_vars

\* Hugeint::SubtractInPlace(lhs, rhs)
SubtractInPlaceCall ==
    /\ a_pc = "args"
    /\ LET r == SubtractInPlace(a_lhs, a_rhs)
       IN  a_ok' = r.ok /\ a_out' = r.val
    /\ a_pc' = "subtracted"
    /\ UNCHANGED <<a_lhs, a_rhs>>
    /\ UNCHANGED driver_vars
    /\ UNCHANGED hugeint_vars
    /\ UNCHANGED func_vars
    /\ UNCHANGED factory_vars

\* hugeint_t::operator<< and operator>> on the same operands
ShiftLeftCall ==
    /\ a_pc = "args"
    /\ a_out' = ShiftLeft(a_lhs, a_rhs)
    /\ a_pc' = "shl"
    /\ UNCHANGED <<a_lhs, a_rhs, a_ok>>
    /\ UNCHANGED driver_vars
    /\ UNCHANGED hugeint_vars
    /\ UNCHANGED func_vars
    /\ UNCHANGED factory_vars

ShiftRightCall ==
    /\ a_pc = "args"
    /\ a_out' = ShiftRight(a_lhs, a_rhs)
    /\ a_pc' = "shr"
    /\ UNCHANGED <<a_lhs, a_rhs, a_ok>>
    /\ UNCHANGED driver_vars
    /\ UNCHANGED hugeint_vars
    /\ UNCHANGED func_vars
    /\ UNCHANGED factory_vars

\* Hugeint::DivMod(lhs, rhs, remainder) with a non-zero divisor (the
\* function asserts it): a_out the quotient and the remainder left in
\* the reference argument, a_ok whether the call returned without throwing.
DivModCall ==
    /\ a_pc = "args"
    /\ a_rhs # HugeZero
    /\ LET r == DivMod(a_lhs, a_rhs)
       IN  a_ok' = ~r.threw /\ a_out' = [div |-> r.div, rem |-> r.rem]
    /\ a_pc' = "divided"
    /\ UNCHANGED <<a_lhs, a_rhs>>
    /\ UNCHANGED driver_vars
    /\ UNCHANGED hugeint_vars
    /\ UNCHANGED func_vars
    /\ UNCHANGED factory_vars

NextArith ==
    \/ AddInPlaceCall
    \/ SubtractInPlaceCall
    \/ DivModCall
    \/ ShiftLeftCall
    \/ ShiftRightCall

SpecArith == InitArith /\ [][NextArith]_vars

\* --------------------------------------- specification of AVG over a group
\* Most rows of the group.
MaxFuncRows == 3

\* Values of an aggregated column of each type.  An int64_t accumulator
\* holds 2^32 int32 values of any sign without overflow, more rows than a
\* group is given here: the scaled int32 values are two bits narrower than
\* the word, so that MaxFuncRows of them fit the word as well.
AvgVals(T) ==
    CASE T = "int32"    -> {0 - Pow2(WordBits - 3), Pow2(WordBits - 3) - 1}
      [] T = "int64"    -> {I64Min, 0 - 1, I64Max}
      [] T = "uint64"   -> {1, U64Max}
      [] T = "duration" -> {I64Min, 1, I64Max}

\* the rows of a group: one column c, null or not
FuncBatches(vals) ==
    UNION {[1 .. k -> {[c |-> x] : x \in {None} \cup {Some(v) : v \in vals}}] :
           k \in 1 .. MaxFuncRows}

InitAvg ==
    /\ DriverIdle
    /\ HugeintIdle
    /\ ArithIdle
    /\ FactoryIdle
    /\ f_pc = "new"
    /\ f_type \in AvgTypes
    /\ f_obj = NoFunc /\ f_seen = <<>>
    /\ f_batch \in FuncBatches(AvgVals(f_type))
    /\ f_cur = 0
    /\ f_st = AvgNone
    /\ f_out = None

\* AvgFunc::Init on the group's first row
AvgInitCall ==
    /\ f_pc = "new"
    /\ LET r == AvgInit(f_type, f_batch)
       IN  f_st' = r.st /\ f_cur' = r.cur
    /\ f_pc' = "rows"
    /\ UNCHANGED <<f_type, f_obj, f_seen, f_batch, f_out>>
    /\ UNCHANGED driver_vars
    /\ UNCHANGED hugeint_vars
    /\ UNCHANGED arith_vars
    /\ UNCHANGED factory_vars

\* AvgFunc::Update on the group's next row
AvgUpdateCall ==
    /\ f_pc = "rows"
    /\ HasMore(f_batch, f_cur)
    /\ \E r \in AvgUpdate(f_type, f_st, f_batch, f_cur) :
        /\ f_st' = r.st /\ f_cur' = r.cur
        /\ f_pc' = IF r.trap THEN "crashed" ELSE "rows"
    /\ UNCHANGED <<f_type, f_obj, f_seen, f_batch, f_out>>
    /\ UNCHANGED driver_vars
    /\ UNCHANGED hugeint_vars
    /\ UNCHANGED arith_vars
    /\ UNCHANGED factory_vars

\* AvgFunc::Summarize of the group
AvgSummarizeCall ==
    /\ f_pc = "rows"
    /\ f_out' = AvgSummarize(f_type, f_st)
    /\ f_pc' = "summarized"
    /\ UNCHANGED <<f_type, f_obj, f_seen, f_batch, f_cur, f_st>>
    /\ UNCHANGED driver_vars
    /\ UNCHANGED hugeint_vars
    /\ UNCHANGED arith_vars
    /\ UNCHANGED factory_vars

NextAvg == AvgInitCall \/ AvgUpdateCall \/ AvgSummarizeCall

SpecAvg == InitAvg /\ [][NextAvg]_vars

\* ------------------------------------------ specification of the factory
InitFactory ==
    /\ DriverIdle
    /\ HugeintIdle
    /\ ArithIdle
    /\ FuncIdle
    /\ t_pc = "def"
    /\ t_func \in AggFuncTypes
    /\ t_field \in IF t_func = "COUNT_STAR"
                   THEN {DType("UINT64", "")} ELSE FieldTypes
    /\ t_dtype = DType("NA", "")

\* agg_func_factory(func, schema) followed by DataType() on what it made
FactoryCall ==
    /\ t_pc = "def"
    /\ LET r == AggFuncFactory(t_func, t_field)
       IN  /\ t_pc' = IF r.threw THEN "error" ELSE "made"
           /\ t_dtype' = r.type
    /\ UNCHANGED <<t_func, t_field>>
    /\ UNCHANGED driver_vars
    /\ UNCHANGED hugeint_vars
    /\ UNCHANGED arith_vars
    /\ UNCHANGED func_vars

NextFactory == FactoryCall

SpecFactory == InitFactory /\ [][NextFactory]_vars

\* ---------------------- specification of one-group MIN / MAX over a column
\* Most rows of a batch, and most rows over all Next calls.
MaxStrRows == 2
MaxStrSeen == 3

\* column types of this specification
MinMaxColTypes == {"INT64", "STRING", "DECIMAL128"}

\* cells of a column of a type
MinMaxCells(type) ==
    {None} \cup {Some(v) : v \in IF type \in StringTypeIds
                                 THEN StrVals ELSE {I64Min, 0, I64Max}}

\* non-empty batches of at most n rows
MinMaxBatches(type, n) ==
    UNION {[1 .. k -> {[c |-> x] : x \in MinMaxCells(type)}] : k \in 1 .. n}

InitOneGroupMinMax ==
    /\ DriverIdle
    /\ HugeintIdle
    /\ ArithIdle
    /\ FactoryIdle
    /\ f_pc = "new"
    /\ f_type \in MinMaxColTypes
    /\ f_obj \in {NewMinMax(f_type, FALSE), NewMinMax(f_type, TRUE)}
    /\ f_batch = <<>>
    /\ f_seen = <<>>
    /\ f_cur = 0
    /\ f_st = None
    /\ f_out = None

\* OneGroupAggregate::Next on a non-empty batch, for one MIN / MAX
\* function: SetBatchArrays binds the iterator through SetArrayIter,
\* InitBatch makes the group on the first call, UpdateBatch follows on every
\* call.
OneGroupMinMaxNextCall ==
    /\ f_pc \in {"new", "idle"}
    /\ \E batch \in MinMaxBatches(f_type, MaxStrRows) :
        LET f1 == MinMaxSetArrayIter(f_obj)
            ini == IF f_pc = "new"
                   THEN MinMaxInitBatch(f1, batch, None)
                   ELSE StCur(f_st, f1.cur)
            f2 == [f1 EXCEPT !.cur = ini.cur]
            upd == MinMaxUpdateBatch(f2, ini.st, batch, None)
        IN  /\ Len(f_seen) + Len(batch) <= MaxStrSeen
            /\ f_batch' = batch
            /\ f_seen' = f_seen \o batch
            /\ IF UpdateBatchDerefsNull(f2)
               THEN /\ f_pc' \in NullDerefOutcomes
                    /\ f_st' = ini.st
                    /\ f_obj' = f2
               ELSE /\ f_pc' = "idle"
                    /\ f_st' = upd.st
                    /\ f_obj' = [f2 EXCEPT !.cur = upd.cur]
    /\ UNCHANGED <<f_type, f_cur, f_out>>
    /\ UNCHANGED driver_vars
    /\ UNCHANGED hugeint_vars
    /\ UNCHANGED arith_vars
    /\ UNCHANGED factory_vars

\* OneGroupAggregate::SummarizeGroups for the function: Summarize(group)
\* appends the state to the builder.
OneGroupMinMaxSummarizeCall ==
    /\ f_pc = "idle"
    /\ f_out' = f_st
    /\ f_pc' = "summarized"
    /\ UNCHANGED <<f_type, f_obj, f_batch, f_seen, f_cur, f_st>>
    /\ UNCHANGED driver_vars
    /\ UNCHANGED hugeint_vars
    /\ UNCHANGED arith_vars
    /\ UNCHANGED factory_vars

NextOneGroupMinMax == OneGroupMinMaxNextCall \/ OneGroupMinMaxSummarizeCall

SpecOneGroupMinMax == InitOneGroupMinMax /\ [][NextOneGroupMinMax]_vars

\* ------------------------------------------- key iterator specification
\* The key iterators of a single (one column) or multi (two columns)
\* variant over one batch whose columns are slices: f_batch the columns,
\* f_cur the iterators, f_seen the key recorded for each row so far.
InitKeyIter ==
    /\ DriverIdle
    /\ HugeintIdle
    /\ ArithIdle
    /\ FactoryIdle
    /\ f_pc = "bind"
    /\ f_type \in {"single", "multi"}
    /\ \E len \in 0 .. MaxBuf :
          f_batch \in [1 .. (IF f_type = "single" THEN 1 ELSE 2) -> Slices(len)]
    /\ f_cur = <<>>
    /\ f_seen = <<>>
    /\ f_obj = NoFunc
    /\ f_st = None
    /\ f_out = None

\* SetBatchArrays of the single / multi variant: every key iterator is
\* bound to its column of the batch.
KeyIterSetBatchArrays ==
    /\ f_pc = "bind"
    /\ f_cur' = [c \in 1 .. Len(f_batch) |-> NumericArrayIterSetArray(f_batch[c])]
    /\ f_pc' = "rows"
    /\ UNCHANGED <<f_type, f_obj, f_batch, f_seen, f_st, f_out>>
    /\ UNCHANGED driver_vars
    /\ UNCHANGED hugeint_vars
    /\ UNCHANGED arith_vars
    /\ UNCHANGED factory_vars

\* GetOrCreateEntry for the next row: the key is taken from the iterators.
KeyIterGetOrCreateEntry ==
    /\ f_pc = "rows"
    /\ Len(f_seen) < f_batch[1].length
    /\ f_seen' = Append(f_seen, [c \in 1 .. Len(f_cur) |-> IntKeyValueOf(f_cur[c]).kv])
    /\ f_cur' = [c \in 1 .. Len(f_cur) |-> IntKeyValueOf(f_cur[c]).it]
    /\ UNCHANGED <<f_pc, f_type, f_obj, f_batch, f_st, f_out>>
    /\ UNCHANGED driver_vars
    /\ UNCHANGED hugeint_vars
    /\ UNCHANGED arith_vars
    /\ UNCHANGED factory_vars

NextKeyIter == KeyIterSetBatchArrays \/ KeyIterGetOrCreateEntry

SpecKeyIter == InitKeyIter /\ [][NextKeyIter]_vars

\* --------------------------------------------- key hashing specification
\* Two keys of the multi variant's map: f_batch the pair of key vectors,
\* f_out what the map computes on them.
MaxKeyCols == 2

KeyValues == {0, 1, 2, U64Max}

IntKeyValues == [value : KeyValues, is_null : BOOLEAN]

KeyVectors == UNION {[1 .. n -> IntKeyValues] : n \in 0 .. MaxKeyCols}

InitKeyHash ==
    /\ DriverIdle
    /\ HugeintIdle
    /\ ArithIdle
    /\ FactoryIdle
    /\ f_pc = "keys"
    /\ f_type = "multi"
    /\ f_batch \in [1 .. 2 -> KeyVectors]
    /\ f_cur = 0
    /\ f_seen = <<>>
    /\ f_obj = NoFunc
    /\ f_st = None
    /\ f_out = None

\* groups.find(key) on a map holding the other key: both keys are hashed
\* with IntVectorHasher and compared with operator== of the vectors.
KeyHashCall ==
    /\ f_pc = "keys"
    /\ f_out' = [hash_a |-> VectorHasher(f_batch[1]),
                 hash_b |-> VectorHasher(f_batch[2]),
                 equal |-> VectorEq(f_batch[1], f_batch[2])]
    /\ f_pc' = "hashed"
    /\ UNCHANGED <<f_type, f_obj, f_batch, f_seen, f_cur, f_st>>
    /\ UNCHANGED driver_vars
    /\ UNCHANGED hugeint_vars
    /\ UNCHANGED arith_vars
    /\ UNCHANGED factory_vars

NextKeyHash == KeyHashCall

SpecKeyHash == InitKeyHash /\ [][NextKeyHash]_vars

\* ------------------------------------------- one whole Next call at once
RECURSIVE RowLoop(_, _, _)
\* the row loop of BaseAggregate::Next from row_idx = i to the end
RowLoop(d, c, i) ==
    IF i >= Len(d.batch) THEN d
    ELSE RowLoop(ProcessRow(d, c, i, None).d, c, i + 1)

\* Next(batch) of the driver of configuration c, from entry to return
NextOn(d, c, batch, oob) ==
    IF c.variant = "one"
    THEN OneGroupNext(d, c, batch, oob)
    ELSE RowLoop(SetBatchArrays(EnsureInitAggFuncs(d, c), c, batch), c, 0)

\* ------------------------------------------------ what the results mean
\* The key tuple of a row under the group-by list of the run.
KeyOf(c, r) ==
    [i \in 1 .. Len(GroupbyCols(c.variant)) |-> r[GroupbyCols(c.variant)[i]]]

\* Null-aware key equality: componentwise both null, or both non-null and
\* the same value.
SameKey(c, r1, r2) ==
    \A i \in 1 .. Len(KeyOf(c, r1)) :
        LET a == KeyOf(c, r1)[i]
            b == KeyOf(c, r2)[i]
        IN  (a.null /\ b.null) \/ (~a.null /\ ~b.null /\ a.v = b.v)

\* number of distinct keys among the pushed rows (first occurrences)
DistinctKeys ==
    Cardinality({i \in 1 .. Len(pushed) :
                    \A j \in 1 .. i - 1 : ~SameKey(cfg, pushed[i], pushed[j])})

HasCol(name) == \E i \in 1 .. Len(result.schema) : result.schema[i].name = name

ColIdx(name) ==
    CHOOSE i \in 1 .. Len(result.schema) : result.schema[i].name = name

\* the output column of that name, and its declared type
Col(name) == result.columns[ColIdx(name)]
ColType(name) == result.schema[ColIdx(name)].type

\* the pushed rows (indices) carrying the key of output row j
OutMembers(j) ==
    IF cfg.variant = "one" THEN 1 .. Len(pushed)
    ELSE LET rep == CHOOSE i \in 1 .. Len(row_group) :
                        row_group[i] = out_gids[j]
         IN  {i \in 1 .. Len(pushed) : SameKey(cfg, pushed[i], pushed[rep])}

\* those of them with a non-null value in column c
NonNullMembers(j) == {i \in OutMembers(j) : ~pushed[i].c.null}

RECURSIVE SumOver(_)
\* exact (unbounded) sum of column c over a set of pushed rows
SumOver(S) ==
    IF S = {} THEN 0
    ELSE LET i == CHOOSE x \in S : TRUE
         IN  pushed[i].c.v + SumOver(S \ {i})

RECURSIVE SumCol(_, _)
\* sum of the non-null elements of an output column from position k on
SumCol(col, k) ==
    IF k > Len(col) THEN 0
    ELSE (IF col[k].null THEN 0 ELSE col[k].v) + SumCol(col, k + 1)

\* the SUM a group should show: null without non-null input
ExactSumCell(j) ==
    IF NonNullMembers(j) = {} THEN None ELSE Some(SumOver(NonNullMembers(j)))

\* the exact sum of output row j is representable in the column's type
SumFits(j) ==
    NonNullMembers(j) = {} \/ SumOver(NonNullMembers(j)) \in TypeRange(CType(cfg.ctype))


\* ------------------------------------------------------------------ claims

\* C1 (streaming split): when the rows were pushed by two Next calls (the
\* split point anywhere, either half possibly empty), Result() is a result
\* that one Next call on the whole row sequence can produce: the same
\* groups with the same COUNT(*), COUNT, MIN, MAX and SUM per group.
C1_SplitSameAsWhole ==
    (pc = "done" /\ nbatches = 2) =>
        \E oob \in CCells(cfg.ctype) :
            LET whole == NextOn(NewAggregate, cfg, pushed, oob)
            IN  \E order \in Orders(Len(whole.groups)) :
                \E oobnulls \in [Len(pushed) + 1 .. NumGroups(whole) - 1
                                    -> BOOLEAN] :
                    ResultBatch(whole, cfg, order, oobnulls) = result

\* C2: after any sequence of Next calls, each output row's COUNT(*) is the
\* number of pushed rows carrying that row's key (all pushed rows in
\* one-group mode), and the COUNT(*) column sums to the number of rows
\* pushed.
C2_CountStarIsRowCount ==
    (pc = "done" /\ HasCol("count_star")) =>
        /\ \A j \in 1 .. Len(Col("count_star")) :
              Col("count_star")[j] = Some(Cardinality(OutMembers(j)))
        /\ SumCol(Col("count_star"), 1) = Len(pushed)

\* C2 happens: three rows in two batches, a null key among them, two groups.
C2_Witness ==
    /\ pc = "done" /\ cfg.variant = "single" /\ nbatches = 2
    /\ Len(pushed) = 3 /\ result.num_rows = 2
    /\ \E i \in 1 .. 3 : pushed[i].k1.null
    /\ \E j \in 1 .. 2 : Col("count_star")[j] = Some(2)

\* C3: each output row's COUNT(c) is the number of its group's rows whose
\* c is non-null, and over all groups COUNT(c) + null_count(c) = COUNT(*).
C3_CountIsNonNullCount ==
    (pc = "done" /\ HasCol("count_c")) =>
        /\ \A j \in 1 .. Len(Col("count_c")) :
              Col("count_c")[j] = Some(Cardinality(NonNullMembers(j)))
        /\ SumCol(Col("count_c"), 1)
              + Cardinality({i \in 1 .. Len(pushed) : pushed[i].c.null})
           = SumCol(Col("count_star"), 1)

\* C3 happens: a group of two rows, one with a null c and one without.
C3_Witness ==
    /\ pc = "done" /\ cfg.variant = "multi" /\ Len(pushed) = 3
    /\ \E j \in 1 .. Len(Col("count_c")) :
          /\ Col("count_c")[j] = Some(1)
          /\ Col("count_star")[j] = Some(2)

\* the shape C4 speaks of: |agg_defs| + |key_project_cols| columns, each of
\* N elements, N the number of distinct keys pushed (1 in one-group mode)
ResultShape ==
    LET N == IF cfg.variant = "one" THEN 1 ELSE DistinctKeys
    IN  /\ Len(result.columns) = Len(InputAggSpecs(cfg)) + Len(AggColNames(cfg))
        /\ Len(result.schema) = Len(result.columns)
        /\ result.num_rows = N
        /\ \A i \in 1 .. Len(result.columns) : Len(result.columns[i]) = N

\* C4 as stated: every Result() has that shape.
C4_ShapeAlways == (pc = "done") => ResultShape

\* C4, amended: a Result() that follows at least one Next call of an
\* operator constructed with at least one key-project column or aggregate
\* definition has |agg_defs| + |key_project_cols| columns and N rows, every
\* column of length N.  (Before the first Next no function exists yet, and
\* without any declared column there is no column to take the row count
\* from: the batch has no column and no row.)
C4_ShapeAfterNext ==
    (pc = "done" /\ nbatches >= 1 /\ (cfg.project \/ cfg.defs)) => ResultShape

\* C4 happens: two non-null keys and the null group, key column projected.
C4_Witness ==
    /\ pc = "done" /\ cfg.variant = "single" /\ cfg.project
    /\ agg.null_group.present /\ result.num_rows = 3
    /\ Len(result.columns) = 6

\* C5: in the hash variants two processed rows are in the same group
\* exactly when their keys agree component by component, null with null
\* and value with value; the data under a null component plays no part.
C5_NullKeysGroupTogether ==
    (cfg.variant # "one") =>
        \A i, j \in 1 .. Len(row_group) :
            (row_group[i] = row_group[j]) <=> SameKey(cfg, pushed[i], pushed[j])

\* C5 happens: two rows whose null key components lie over different data
\* went into one group, apart from a row with a non-null key.
C5_Witness ==
    /\ cfg.variant = "multi" /\ Len(row_group) = 3
    /\ \E i, j, k \in 1 .. 3 :
          /\ pushed[i].k1.null /\ pushed[j].k1.null
          /\ pushed[i].k1.v # pushed[j].k1.v
          /\ row_group[i] = row_group[j]
          /\ ~pushed[k].k1.null /\ row_group[k] # row_group[i]

\* C6: in one-group mode, when every batch pushed had zero rows, the result
\* is one row with COUNT(*) = 0 and COUNT(c) = 0 and null MIN, MAX and SUM.
C6_OneGroupOverZeroRows ==
    (pc = "done" /\ cfg.variant = "one" /\ nbatches >= 1 /\ Len(pushed) = 0) =>
        /\ result.num_rows = 1
        /\ Col("count_star") = <<Some(0)>>
        /\ Col("count_c") = <<Some(0)>>
        /\ Col("min_c") = <<None>>
        /\ Col("max_c") = <<None>>
        /\ Col("sum_c") = <<None>>

\* C7: in the hash variants, when some group's exact sum does not fit the
\* column's integer type, the SUM column is decimal128 and every element of
\* it, those summarized before the transition included, is the group's
\* exact sum, null exactly for a group without non-null input.
C7_OverflowTransition ==
    (/\ pc = "done" /\ cfg.variant # "one" /\ HasCol("sum_c")
     /\ \E j \in 1 .. result.num_rows : ~SumFits(j)) =>
        /\ ColType("sum_c") = "decimal128"
        /\ \A j \in 1 .. Len(Col("sum_c")) : Col("sum_c")[j] = ExactSumCell(j)

\* C8: in the hash variants the SUM column has the column's integer type
\* exactly when every group's exact sum lies in the closed range of that
\* type, and is decimal128 otherwise.
C8_TypedIffAllFit ==
    (pc = "done" /\ cfg.variant # "one" /\ HasCol("sum_c")) =>
        /\ ColType("sum_c") \in {cfg.ctype, "decimal128"}
        /\ (ColType("sum_c") = cfg.ctype)
              <=> (\A j \in 1 .. result.num_rows : SumFits(j))

\* C9: TryCast<int64_t>(Convert<int64_t>(x)) succeeds and returns x, for
\* every 64-bit signed x.
C9_RoundTrip ==
    (h_pc = "cast" /\ h_conv /\ h_T = "i64") => (h_ok /\ h_res = h_x)

\* C10: TryCast<T> succeeds only on a value in the range of T, and then
\* returns that value.
C10_TryCastSound ==
    (h_pc = "cast" /\ h_ok) =>
        (HugeVal(h_in) \in TypeRange(h_T) /\ h_res = HugeVal(h_in))


\* the values a hugeint_t can hold and the arithmetic accepts: the signed
\* two-word range without the sentinel {upper = min, lower = 0}
HugeMin == I64Min * TwoW
HugeMax == I64Max * TwoW + U64Max
Representable(v) == v > HugeMin /\ v <= HugeMax

\* C11: AddInPlace(a, b) returns false exactly when a + b is outside the
\* signed two-word range or is the sentinel, and otherwise returns true
\* with a equal to the exact sum.
C11_AddInPlaceExact ==
    (a_pc = "added") =>
        /\ a_ok <=> Representable(HugeVal(a_lhs) + HugeVal(a_rhs))
        /\ a_ok => HugeVal(a_out) = HugeVal(a_lhs) + HugeVal(a_rhs)

\* C11 happens: an accepted sum with a carry out of the lower word, and
\* next to it the state is an addition.
C11_Witness ==
    /\ a_pc = "added" /\ a_ok
    /\ a_lhs.lower + a_rhs.lower > U64Max
    /\ a_rhs.upper < 0 /\ a_lhs.upper > 0

\* C12: for operands other than the sentinel, SubtractInPlace(a, b) returns
\* false exactly when a - b is outside the signed two-word range or is the
\* sentinel, and otherwise returns true with a equal to the exact
\* difference.
C12_SubtractInPlaceExact ==
    (/\ a_pc = "subtracted"
     /\ Representable(HugeVal(a_lhs)) /\ Representable(HugeVal(a_rhs))) =>
        /\ a_ok <=> Representable(HugeVal(a_lhs) - HugeVal(a_rhs))
        /\ a_ok => HugeVal(a_out) = HugeVal(a_lhs) - HugeVal(a_rhs)


\* C13: when a name given to the driver (group-by, key-project or the
\* input column of an aggregate definition) is unknown in the schema, the
\* first Next ends in the column-not-found error, with no column bound and
\* no group created.
C13_UnknownColumnIsError ==
    (cfg.unknown # "" /\ nbatches >= 1) =>
        /\ pc = "error"
        /\ agg.groups = <<>> /\ ~agg.null_group.present
        /\ agg.batch = <<>>


\* the pushed row that created the group gid: its first row in push order
FirstRowOf(gid) ==
    CHOOSE i \in 1 .. Len(row_group) :
        row_group[i] = gid /\ \A j \in 1 .. i - 1 : row_group[j] # gid

\* what a key-project column shows for a cell: its value, or null
Projected(cell) == IF cell.null THEN None ELSE Some(cell.v)

\* C14: for every group and key-project column, the GROUP_BUILDER state,
\* and the output value made of it, is the column's value (or null) at the
\* first pushed row of the group; later rows of the group leave it alone.
C14_GroupBuilderFirstSeen ==
    (cfg.project /\ cfg.unknown = "") =>
        \A p \in 1 .. Len(AggColNames(cfg)) :
            /\ \A i \in 1 .. Len(row_group) :
                  EntryOf(agg, row_group[i])[p] =
                      Projected(pushed[FirstRowOf(row_group[i])][AggColNames(cfg)[p]])
            /\ (pc = "done") =>
                  \A j \in 1 .. Len(out_gids) :
                      result.columns[p][j] =
                          Projected(pushed[FirstRowOf(out_gids[j])][AggColNames(cfg)[p]])

\* C14 happens: a group created by a row that is not row 0 of its batch got
\* a later row, and the result shows a null and a non-null key.
C14_Witness ==
    /\ pc = "done" /\ cfg.variant = "multi" /\ Len(pushed) = 3
    /\ nbatches = 1 /\ result.num_rows = 2
    /\ row_group = <<1, 2, 2>>
    /\ pushed[1].k1.null /\ ~pushed[2].k1.null


\* the rows of a result batch as a set (each row: its cells, column by
\* column; with the key columns projected the rows are keyed)
RowSet(res) ==
    {[c \in 1 .. Len(res.columns) |-> res.columns[c][j]] :
        j \in 1 .. res.num_rows}

\* C15: when one batch was pushed to a hash variant that projects its key
\* columns, pushing any permutation of its rows instead gives the same set
\* of result rows (COUNT(*), COUNT, MIN, MAX, SUM per key).  Stated where
\* the map holds at most one entry beside the null group, so that the
\* order of enumeration plays no part.
C15_PermutationInvariant ==
    (/\ pc = "done" /\ nbatches = 1 /\ cfg.variant # "one"
     /\ cfg.project /\ cfg.unknown = "" /\ Len(agg.groups) <= 1) =>
        \A perm \in Orders(Len(pushed)) :
            LET batch == [i \in 1 .. Len(pushed) |-> pushed[perm[i]]]
                whole == NextOn(NewAggregate, cfg, batch, None)
            IN  \A order \in Orders(Len(whole.groups)) :
                \A oobnulls \in [Len(batch) + 1 .. NumGroups(whole) - 1
                                    -> BOOLEAN] :
                    RowSet(ResultBatch(whole, cfg, order, oobnulls))
                        = RowSet(result)

\* the non-null values among the first n rows of the harness batch
RECURSIVE SeenSum(_)
SeenSum(n) ==
    IF n = 0 THEN 0
    ELSE (IF f_batch[n].c.null THEN 0 ELSE f_batch[n].c.v) + SeenSum(n - 1)

SeenCount(n) == Cardinality({i \in 1 .. n : ~f_batch[i].c.null})

\* the number an AVG accumulator holds
AccVal(T, first) == IF AvgSumIsHuge(T) THEN HugeVal(first) ELSE first

\* C16: after any sequence of rows the AVG state of a group is the pair
\* (sum of its non-null values, number of its non-null values), null when
\* there is none; the emitted AVG is that sum over that count, and it is
\* null exactly when the group has no non-null value.
C16_AvgIsSumOverCount ==
    (f_pc \in {"rows", "summarized"}) =>
        /\ f_st.null = (SeenCount(f_cur) = 0)
        /\ ~f_st.null =>
              /\ AccVal(f_type, f_st.v.first) = SeenSum(f_cur)
              /\ f_st.v.second = SeenCount(f_cur)
        /\ f_pc = "summarized" =>
              /\ f_out.null = (SeenCount(f_cur) = 0)
              /\ ~f_out.null =>
                    f_out.v.num * SeenCount(f_cur) = SeenSum(f_cur) * f_out.v.den

\* C16 over the accumulators that cannot overflow
C16_NoDuration == f_type # "duration" => C16_AvgIsSumOverCount

\* position of the function `func` in an entry of the driver
FuncIdx(func) ==
    CHOOSE i \in 1 .. Len(agg.agg_funcs) : agg.agg_funcs[i].func = func

\* the processed rows folded into group gid that have a non-null c
SeenNonNull(gid) ==
    {i \in 1 .. Len(row_group) : row_group[i] = gid /\ ~pushed[i].c.null}

\* the MIN (is_max = FALSE) or MAX a group should hold
ExactMinMax(gid, is_max) ==
    IF SeenNonNull(gid) = {} THEN None
    ELSE Some(CHOOSE v \in {pushed[i].c.v : i \in SeenNonNull(gid)} :
                \A i \in SeenNonNull(gid) :
                    IF is_max THEN pushed[i].c.v <= v ELSE v <= pushed[i].c.v)

\* C17: after any sequence of Init / Update calls on the rows of a group,
\* its MIN (MAX) state is None when every value seen was null, and the
\* smallest (largest) non-null value seen otherwise; null rows, the first
\* row included, leave no trace.
C17_MinMaxState ==
    (cfg.variant # "one" /\ cfg.unknown = "" /\ cfg.defs) =>
        \A i \in 1 .. Len(row_group) :
            /\ EntryOf(agg, row_group[i])[FuncIdx("MIN")] =
                   ExactMinMax(row_group[i], FALSE)
            /\ EntryOf(agg, row_group[i])[FuncIdx("MAX")] =
                   ExactMinMax(row_group[i], TRUE)

\* C17 happens: a group whose first row is null got two different non-null
\* values, the smaller one last.
C17_Witness ==
    /\ cfg.variant = "single" /\ cfg.unknown = "" /\ pc = "done"
    /\ row_group = <<1, 1, 1>>
    /\ pushed[1].c.null
    /\ ~pushed[2].c.null /\ ~pushed[3].c.null
    /\ pushed[3].c.v < pushed[2].c.v
    /\ EntryOf(agg, 1)[FuncIdx("MIN")] = Some(pushed[3].c.v)
    /\ EntryOf(agg, 1)[FuncIdx("MAX")] = Some(pushed[2].c.v)

\* the SUM output type documented for an input type
DocumentedSumType(field_type) ==
    CASE field_type.id \in {"INT8", "INT16", "INT32"} -> DType("INT64", "")
      [] field_type.id \in {"UINT8", "UINT16", "UINT32"} -> DType("UINT64", "")
      [] field_type.id \in {"HALF_FLOAT", "FLOAT", "DOUBLE"} -> DType("DOUBLE", "")
      [] field_type.id \in {"TIME32", "TIME64", "DURATION"} -> field_type

DocumentedSumInputs ==
    {"INT8", "INT16", "INT32", "UINT8", "UINT16", "UINT32",
     "HALF_FLOAT", "FLOAT", "DOUBLE", "TIME32", "TIME64", "DURATION"}

\* C18: the declared output type of SUM is int64 for int8/16/32, uint64 for
\* uint8/16/32, float64 for half/float/double, and the input type itself,
\* unit included, for time32, time64 and duration.
C18_SumOutputType ==
    (t_func = "SUM" /\ t_pc # "def" /\ t_field.id \in DocumentedSumInputs) =>
        /\ t_pc = "made"
        /\ t_dtype = DocumentedSumType(t_field)

\* C18 without the duration inputs
C18_NoDuration == t_field.id # "DURATION" => C18_SumOutputType

\* the primitive types listed for the key of the single-numeric driver
PrimitiveKeyTypes ==
    {"INT8", "INT16", "INT32", "INT64", "UINT8", "UINT16", "UINT32", "UINT64",
     "HALF_FLOAT", "FLOAT", "DOUBLE", "DATE32", "DATE64", "TIME32", "TIME64",
     "TIMESTAMP", "DURATION", "BOOL", "INTERVAL_MONTHS", "INTERVAL_DAY_TIME"}

\* C19: with one group-by column of a primitive type (integer, float,
\* date/time, duration, boolean, interval) the single-numeric driver gets a
\* key for every row without raising an error, and two rows are in the same
\* group exactly when they carry the same key value.
C19_SingleNumericAcceptsPrimitives ==
    (/\ cfg.variant = "single" /\ cfg.unknown = ""
     /\ cfg.ktype \in PrimitiveKeyTypes) =>
        /\ pc # "error"
        /\ \A i, j \in 1 .. Len(row_group) :
              (row_group[i] = row_group[j]) = SameKey(cfg, pushed[i], pushed[j])

\* C19 over the key types whose iterator is a NumericArrayIter
C19_NumericKeys ==
    ArrayIterFactory(cfg.ktype) = "NumericArrayIter" =>
        C19_SingleNumericAcceptsPrimitives

\* the non-null values pushed to the harness function so far
SeenVals == {f_seen[i].c.v : i \in {j \in 1 .. Len(f_seen) : ~f_seen[j].c.null}}

\* order of the values of a column type
ValLess(type, a, b) == IF type \in StringTypeIds THEN StrLess(a, b) ELSE a < b

\* the smallest (largest) non-null value pushed, None when there is none
ExactSeenMinMax(type, is_max) ==
    IF SeenVals = {} THEN None
    ELSE Some(CHOOSE v \in SeenVals :
                \A w \in SeenVals :
                    w = v \/ (IF is_max THEN ValLess(type, w, v)
                                        ELSE ValLess(type, v, w)))

\* C20: in one-group mode MIN / MAX over a string, binary or decimal column
\* never dereferences an iterator that was not bound, and after any
\* sequence of batches its state, and the output made of it, is the
\* lexicographically smallest / largest non-null byte string pushed.
C20_OneGroupStringMinMax ==
    f_type \in StringTypeIds =>
        /\ f_pc \notin NullDerefOutcomes
        /\ f_pc \in {"idle", "summarized"} =>
              f_st = ExactSeenMinMax(f_type, f_obj.is_max)
        /\ f_pc = "summarized" => f_out = f_st

\* the same statement for the primitive column type
C20_PrimitiveCase ==
    (f_type = "INT64" /\ f_obj.class = "MinMaxFunc") =>
        /\ f_pc \notin NullDerefOutcomes
        /\ f_pc \in {"idle", "summarized"} =>
              f_st = ExactSeenMinMax(f_type, f_obj.is_max)
        /\ f_pc = "summarized" => f_out = f_st

\* ---------------------------------------------------------------- C21
\* C21: initialisation happens once.  After every next call that returned,
\* whatever the constructor arguments (empty key_project_cols together with
\* empty agg_defs included), groupby_col_indices has one index per group-by
\* column, agg_col_indices one per key-project column, and agg_funcs one
\* function per key-project column plus one per aggregate definition.
C21_InitOnce ==
    (cfg.unknown = "" /\ nbatches >= 1 /\ pc \in {"idle", "done"}) =>
        /\ Len(agg.groupby_col_indices) = Len(GroupbyColNames(cfg))
        /\ Len(agg.agg_col_indices) = Len(AggColNames(cfg))
        /\ Len(agg.agg_funcs) = Len(AggColNames(cfg)) + Len(InputAggSpecs(cfg))

\* C21 on the runs where the constructor was given at least one key-project
\* column or aggregate definition
C21_WithFunctions ==
    (cfg.project \/ cfg.defs) => C21_InitOnce

\* ---------------------------------------------------------------- C22
\* the entries of the map, the null group of the single variant included
Entries ==
    {agg.groups[g].entry : g \in 1 .. Len(agg.groups)}
        \cup (IF agg.null_group.present THEN {agg.null_group.entry} ELSE {})

\* C22: at every row boundary of every next call of a hash variant, each
\* group entry present (the null group included) holds exactly |agg_funcs|
\* states, and agg_funcs lists the GROUP_BUILDER of every key-project column
\* first and the user functions after them.
C22_EntryHoldsAllStates ==
    (cfg.variant # "one") =>
        /\ \A e \in Entries : Len(e) = Len(agg.agg_funcs)
        /\ \A i \in 1 .. Len(agg.agg_funcs) :
              (agg.agg_funcs[i].func = "GROUP_BUILDER")
                  <=> (i <= Len(agg.agg_col_indices))

\* C22 happens: in the middle of the second batch of a run with key-project
\* columns, the null group and another group are present.
C22_Witness ==
    /\ cfg.variant = "single" /\ cfg.project /\ cfg.unknown = ""
    /\ pc = "rows" /\ nbatches = 2 /\ row_idx >= 1
    /\ agg.null_group.present /\ Len(agg.groups) >= 1
    /\ Len(agg.agg_funcs) = Len(AggDefs) + 1

\* ---------------------------------------------------------------- C23
\* one iteration of the row loop has run to its end
RowStep == pc = "rows" /\ row_idx' = row_idx + 1

\* C23: every input row affects exactly one group entry.  A row with a key
\* not seen before adds one entry on which every function ran Init once
\* (COUNT(*) is 1, COUNT(c) is 0 or 1, each GROUP_BUILDER holds the row's
\* key); a row with a known key leaves the number of entries alone, leaves
\* the GROUP_BUILDER states of its entry alone and runs Update once on each
\* user function (COUNT(*) grows by one, COUNT(c) by one iff c is not
\* null).  Every other entry, of the null group too, is unchanged.
C23_OneEntryPerRow ==
    [][(RowStep /\ cfg.variant # "one" /\ cfg.defs /\ cfg.unknown = "") =>
        LET gid == row_group'[Len(row_group')]
            row == pushed[Len(row_group')]
            is_new == gid \notin {row_group[i] : i \in 1 .. Len(row_group)}
            first == Len(agg.agg_col_indices) + 1
            old == EntryOf(agg, gid)
            new == EntryOf(agg', gid)
            star == FuncIdx("COUNT_STAR")
            cnt == FuncIdx("COUNT")
            one == IF row.c.null THEN 0 ELSE 1
        IN  /\ \A g \in 1 .. Len(agg.groups) :
                  g # gid => agg'.groups[g] = agg.groups[g]
            /\ gid # 0 => agg'.null_group = agg.null_group
            /\ Len(agg'.groups) =
                  Len(agg.groups) + (IF is_new /\ gid # 0 THEN 1 ELSE 0)
            /\ agg'.null_group.present = (agg.null_group.present \/ gid = 0)
            /\ is_new =>
                  /\ new[star] = Some(1)
                  /\ new[cnt] = Some(one)
                  /\ \A i \in 1 .. first - 1 :
                        new[i] = (IF row[agg.agg_funcs[i].column_name].null
                                  THEN None
                                  ELSE Some(row[agg.agg_funcs[i].column_name].v))
            /\ ~is_new =>
                  /\ new[star] = Some(old[star].v + 1)
                  /\ new[cnt] = Some(old[cnt].v + one)
                  /\ \A i \in 1 .. first - 1 : new[i] = old[i]]_vars

\* C23 happens: with two groups in the map, a row went to a group that an
\* earlier row had created.
C23_Witness ==
    /\ cfg.variant # "one" /\ cfg.project /\ cfg.unknown = ""
    /\ pc = "rows" /\ row_idx >= 1 /\ NumGroups(agg) >= 2
    /\ \E i \in 1 .. Len(row_group) - 1 :
          row_group[i] = row_group[Len(row_group)]

\* ---------------------------------------------------------------- C24
\* C24: a next call with a zero-row batch leaves the groups and their states
\* unchanged in the hash variants, from its entry to its return, whether the
\* batch comes first, last or between batches that have rows.
C24_EmptyBatchKeepsGroups ==
    [][(/\ cfg.variant # "one"
        /\ pc \in {"idle", "rows"} /\ pc' \in {"rows", "idle"}
        /\ Len(agg'.batch) = 0) =>
            /\ agg'.groups = agg.groups
            /\ agg'.null_group = agg.null_group]_vars

\* C24 happens: a zero-row batch was pushed after a batch that made groups,
\* and the call has returned.
C24_Witness ==
    /\ cfg.variant # "one" /\ cfg.unknown = ""
    /\ pc = "idle" /\ nbatches >= 2 /\ Len(agg.batch) = 0
    /\ NumGroups(agg) >= 2

\* ---------------------------------------------------------------- C25
\* C25: in the single and the multi variant the null flag recorded in the
\* key of row r for column c is the validity bit of row r of that column
\* (the slot offset + r of the parent's bitmap), never that of row r + 1,
\* for every row, the last one included, and for any offset of the array.
C25_NullFlagOfRow ==
    \A r \in 1 .. Len(f_seen) : \A c \in 1 .. Len(f_seen[r]) :
        f_seen[r][c].is_null = f_batch[c].buf[f_batch[c].offset + r].null

\* C25 happens: a column with a non-zero offset whose two rows differ in
\* validity has been read to its last row.
C25_Witness ==
    /\ f_pc = "rows" /\ f_type = "multi" /\ Len(f_seen) = 2
    /\ f_batch[2].offset = 1 /\ f_batch[2].length = 2
    /\ f_batch[2].buf[2].null /\ ~f_batch[2].buf[3].null
    /\ f_seen[1][2].is_null /\ ~f_seen[2][2].is_null

\* ---------------------------------------------------------------- C26
\* the shift amount is a plain count below the width of a hugeint_t
ShiftInRange == a_rhs.upper = 0 /\ a_rhs.lower < 2 * WordBits

\* C26: for every hugeint_t v and every shift s with 0 <= s < 128, both
\* v << s and v >> s have the sign bit of their upper word cleared
\* (upper >= 0), s = 64 and a lower word with its top bit set included.
C26_ShiftsClearSign ==
    (a_pc \in {"shl", "shr"} /\ ShiftInRange) => a_out.upper >= 0

\* C26 for v >> s alone
C26_RightShiftClearsSign ==
    (a_pc = "shr" /\ ShiftInRange) => a_out.upper >= 0

\* C26 for v << s with s other than the width of a word
C26_LeftShiftOffWord ==
    (a_pc = "shl" /\ ShiftInRange /\ a_rhs.lower # WordBits) =>
        a_out.upper >= 0

\* ---------------------------------------------------------------- C27
\* the hugeint_t that stands for no number: {upper = INT64_MIN, lower = 0}
Sentinel == MkHuge(I64Min, 0)

AbsVal(x) == IF x < 0 THEN 0 - x ELSE x

\* C27: for every a other than the sentinel and every b other than 0 and
\* the sentinel, DivMod(a, b) returns without an overflow error of its
\* additions and subtractions, with a quotient q and a remainder r such that
\* a = q * b + r, |r| < |b|, and r is zero or has the sign of a.
C27_DivModExact ==
    (a_pc = "divided" /\ a_lhs # Sentinel /\ a_rhs # Sentinel) =>
        LET a == HugeVal(a_lhs)
            b == HugeVal(a_rhs)
            q == HugeVal(a_out.div)
            r == HugeVal(a_out.rem)
        IN  /\ a_ok
            /\ a = q * b + r
            /\ AbsVal(r) < AbsVal(b)
            /\ r = 0 \/ ((r < 0) <=> (a < 0))

\* C27 happens: a negative dividend with both words in use, divided by a
\* positive divisor that leaves a remainder.
C27_Witness ==
    /\ a_pc = "divided" /\ a_ok
    /\ HugeVal(a_lhs) < 0 - TwoW /\ HugeVal(a_rhs) > 1
    /\ HugeVal(a_out.rem) < 0 /\ HugeVal(a_out.div) < 0

\* ---------------------------------------------------------------- C28
\* the functions that read their column through a cursor
CursorFuncs == {"COUNT", "MIN", "MAX", "SUM"}

\* the processed rows that are alone in their group
AloneInGroup ==
    {i \in 1 .. Len(row_group) :
        \A j \in 1 .. Len(row_group) : row_group[j] = row_group[i] => j = i}

C29_FailureKeepsLhs ==
    (a_pc = "added" /\ a_lhs # Sentinel /\ a_rhs # Sentinel /\ ~a_ok) =>
        /\ a_out = a_lhs
        /\ HugePlusEq(a_lhs, a_rhs) = a_lhs

\* C29 for the failures reported by the range checks made before lhs is
\* written: the sum lies outside the signed two-word range
C29_RangeFailureKeepsLhs ==
    (/\ a_pc = "added" /\ a_lhs # Sentinel /\ a_rhs # Sentinel /\ ~a_ok
     /\ HugeVal(a_lhs) + HugeVal(a_rhs) # HugeMin) =>
        /\ a_out = a_lhs
        /\ HugePlusEq(a_lhs, a_rhs) = a_lhs

\* ---------------------------------------------------------------- C30
\* C30: hash / equality consistency.  Two key vectors that IntKeyValue
\* equality declares equal have the same IntVectorHasher hash, whatever
\* uint64 values sit under their null positions.
C30_EqualKeysHashEqual ==
    (f_pc = "hashed" /\ f_out.equal) => f_out.hash_a = f_out.hash_b

\* C30 happens: two equal keys with a non-null and a null component, the
\* null components lying over different values.
C30_Witness ==
    /\ f_pc = "hashed" /\ f_out.equal
    /\ Len(f_batch[1]) = 2
    /\ ~f_batch[1][1].is_null /\ f_batch[1][1].value = U64Max
    /\ f_batch[1][2].is_null
    /\ f_batch[1][2].value # f_batch[2][2].value

====
